---- MODULE Spec2Model ----
(***************************************************************************)
(* Model of the AstroQuiz serverless functions:                            *)
(*   - the cheat-detection endpoint and its rule-based scorer              *)
(*     (src/unnamed/part_000),                                             *)
(*   - the PythonAnywhere question adapter of generate-questions,          *)
(*   - the provider fallback loop of generate-questions, ai-tutor-chat     *)
(*     and translate-text,                                                 *)
(*   - the QuizGame component (src/unnamed/part_009),                      *)
(*   - the trigger that keeps user_profiles.has_suspicious_sessions.       *)
(*                                                                         *)
(* JavaScript numbers that come out of a division are kept as exact        *)
(* fractions [n, d] with d >= 0; d = 0 encodes the IEEE specials           *)
(* (n = 0: NaN, n > 0: +Infinity, n < 0: -Infinity).  For the small        *)
(* integers of the model every comparison the code makes on the double     *)
(* agrees with the comparison on the exact fraction.  Confidence values    *)
(* are written in hundredths (0.95 is 95).                                 *)
(***************************************************************************)
EXTENDS Integers, Sequences, FiniteSets, TLC

VARIABLES
    pc,             \* position of the request being handled
    req,            \* parsed request body of the integrity endpoint
    anomalyResult,  \* value returned by performAnomalyDetection
    llmResult,      \* value returned by performLLMAnalysis
    response,       \* HTTP response of the integrity endpoint
    sessionFlag,    \* quiz_sessions row of the request's session
    paResponse,     \* what the PythonAnywhere API answered to one prompt
    paOutcome,      \* the question built from it, or the error thrown
    paQuestions,    \* the questions array of the running tryPythonAnywhere call
    handler,        \* the fallback endpoint that received the request
    aiProviderEnv,  \* the AI_PROVIDER environment variable
    freq,           \* parsed request body of the fallback endpoint
    providers,      \* the provider order of the request
    attempt,        \* position in providers of the current loop iteration
    calls,          \* the adapter invocations of the request, in order
    usedProvider,   \* usedProvider
    lastError,      \* lastError
    generatedContent, \* what the successful adapter returned
    httpResponse,   \* HTTP response of the fallback endpoint
    questionsTable, \* the rows the request has inserted into questions
    firstEvaluation, \* the first request given to the scorer, with its result
    game,           \* the state of the QuizGame component
    resultTimer,    \* the pending 2-second callback of handleAnswerSubmit
    createdSession, \* what completeQuiz gave to quizAPI.createSession
    profile,        \* the user_profiles row of the player
    correctAnswers, \* how many questions of the quiz were answered correctly
    quiz_sessions,  \* the quiz_sessions table: user_id and is_suspicious
    user_profiles   \* the user_profiles table: has_suspicious_sessions

ivars == <<req, anomalyResult, llmResult, response, sessionFlag>>
avars == <<paResponse, paOutcome, paQuestions>>
fvars == <<handler, aiProviderEnv, freq, providers, attempt, calls, usedProvider,
           lastError, generatedContent, httpResponse>>
dvars == <<questionsTable>>
hvars == <<firstEvaluation>>
qvars == <<game, resultTimer, createdSession, profile, correctAnswers>>
tvars == <<quiz_sessions, user_profiles>>
ovars == <<hvars, qvars, tvars>>
vars == <<pc, ivars, avars, fvars, dvars, ovars>>

----------------------------------------------------------------------------
(* Bounds *)

MaxQuestions == 10      \* scorer inputs: total_questions, score, streak
MaxTime == 50           \* scorer inputs: time_taken in seconds
HMaxQuestions == 2      \* endpoint requests: total_questions, score, streak
HMaxTime == 11          \* endpoint requests: time_taken
MaxCount == 2           \* question-generation requests: count

----------------------------------------------------------------------------
(* JavaScript values *)

NoValue == [t |-> "undefined", v |-> 0]
Num(v) == [t |-> "number", v |-> v]
Str(s) == [t |-> "string", v |-> s]
IsNumber(x) == x.t = "number"

\* a / b on JavaScript numbers, as an exact fraction with denominator >= 0
Div(a, b) ==
    IF b > 0 THEN [n |-> a, d |-> b]
    ELSE IF b < 0 THEN [n |-> 0 - a, d |-> 0 - b]
    ELSE [n |-> (IF a > 0 THEN 1 ELSE IF a < 0 THEN 0 - 1 ELSE 0), d |-> 0]

\* x * k for a positive integer k
Times(x, k) == IF x.d = 0 THEN x ELSE [n |-> x.n * k, d |-> x.d]

\* comparisons of a fraction with an integer k; every comparison with NaN is false
Lt(x, k) == IF x.d = 0 THEN x.n < 0 ELSE x.n < k * x.d
Gt(x, k) == IF x.d = 0 THEN x.n > 0 ELSE x.n > k * x.d
Ge(x, k) == IF x.d = 0 THEN x.n > 0 ELSE x.n >= k * x.d
Eq(x, k) == x.d > 0 /\ x.n = k * x.d

\* the adapter has not been called
NoOutcome == [ok |-> FALSE, error |-> ""]

AdapterUnused ==
    /\ paResponse = [kind |-> "none", data |-> NoValue]
    /\ paOutcome = NoOutcome
    /\ paQuestions = <<>>

\* the body of a fallback endpoint's response; "" and <<>> are absent fields
NoHttpBody ==
    [error |-> "", details |-> "", attempted_providers |-> <<>>,
     provider_errors |-> {}, success |-> FALSE, provider_used |-> "",
     fallback_used |-> FALSE, result |-> NoValue, generated_count |-> 0]

NoHttpResponse == [status |-> 0, body |-> NoHttpBody]

NoContent == [kind |-> "none", questions |-> <<>>]

\* no request has reached a fallback endpoint
FallbackIdle ==
    /\ handler = ""
    /\ freq = NoValue
    /\ providers = <<>>
    /\ attempt = 0
    /\ calls = <<>>
    /\ usedProvider = ""
    /\ lastError = ""
    /\ generatedContent = NoContent
    /\ httpResponse = NoHttpResponse
    /\ questionsTable = <<>>

FallbackUnused == aiProviderEnv = NoValue /\ FallbackIdle

\* the scorer has not been evaluated yet
NoEvaluation == [request |-> NoValue, result |-> NoValue]
NotEvaluated == firstEvaluation = NoEvaluation

\* the seconds a question is given: setTimeLeft(30), questions.length * 30
SecondsPerQuestion == 30

\* the QuizGame component as it is mounted, nobody playing
NoGame == [questions |-> <<>>, currentQuestionIndex |-> 0, selectedAnswer |-> NoValue,
           score |-> 0, streak |-> 0, showResult |-> FALSE,
           quizCompleted |-> FALSE, timeLeft |-> SecondsPerQuestion,
           gameStarted |-> FALSE, user |-> NoValue]
NoTimer == [pending |-> FALSE, currentQuestionIndex |-> 0, score |-> 0,
            streak |-> 0, timeLeft |-> 0]
NoProfile == [total_score |-> 0, best_streak |-> 0, games_played |-> 0]

GameUnused ==
    /\ game = NoGame
    /\ resultTimer = NoTimer
    /\ createdSession = NoValue
    /\ profile = NoProfile
    /\ correctAnswers = 0

\* no row in the tables of the suspicion trigger
TablesUnused == quiz_sessions = <<>> /\ user_profiles = <<>>

\* nothing outside the request being handled is in use
RestUnused == NotEvaluated /\ GameUnused /\ TablesUnused

----------------------------------------------------------------------------
(* The rule-based scorer *)

IMPOSSIBLE_SPEED == 1
EXTREMELY_FAST == 2
PERFECT_SCORE_TIME_LIMIT == 15
HIGH_SCORE_FAST_TIME == 3
MINIMUM_EXPECTED_TIME == 5

\* result of the if / else-if chain over the speed rules
SpeedVerdict(isSuspicious, reason, confidence, speed) ==
    [isSuspicious |-> isSuspicious, suspicionReason |-> reason,
     confidenceScore |-> confidence, speedAnalysis |-> speed]

SpeedImpossible ==
    SpeedVerdict(TRUE, "Impossible completion speed detected", 95,
                 "Impossible - Less than 1 second per question")
SpeedExtremelyFast ==
    SpeedVerdict(TRUE, "Extremely fast completion speed", 85,
                 "Extremely Fast - Less than 2 seconds per question")
SpeedPerfectTooFast ==
    SpeedVerdict(TRUE, "Perfect score achieved in impossibly short time", 90,
                 "Suspicious - Perfect score too fast")
SpeedHighScoreFast ==
    SpeedVerdict(TRUE, "High accuracy with suspiciously fast completion", 75,
                 "Suspicious - High score with fast completion")
SpeedBelowMinimum ==
    SpeedVerdict(TRUE, "Completion time significantly below expected minimum", 70,
                 "Below Expected Minimum")
SpeedNormal == SpeedVerdict(FALSE, "", 0, "Normal")

\* a slip that tests the perfect-score rule before the per-question speed rules
SpeedAnalysisPerfectFirst(timePerQuestion, accuracyPercentage, time_taken) ==
    IF Eq(accuracyPercentage, 100) /\ time_taken < PERFECT_SCORE_TIME_LIMIT
        THEN SpeedPerfectTooFast
    ELSE IF Lt(timePerQuestion, IMPOSSIBLE_SPEED) THEN SpeedImpossible
    ELSE IF Lt(timePerQuestion, EXTREMELY_FAST) THEN SpeedExtremelyFast
    ELSE IF Ge(accuracyPercentage, 80) /\ Lt(timePerQuestion, HIGH_SCORE_FAST_TIME)
        THEN SpeedHighScoreFast
    ELSE IF Lt(timePerQuestion, MINIMUM_EXPECTED_TIME) /\ Gt(accuracyPercentage, 50)
        THEN SpeedBelowMinimum
    ELSE SpeedNormal

\* a slip that tests the high-score rule before the perfect-score rule
SpeedAnalysisHighScoreFirst(timePerQuestion, accuracyPercentage, time_taken) ==
    IF Lt(timePerQuestion, IMPOSSIBLE_SPEED) THEN SpeedImpossible
    ELSE IF Lt(timePerQuestion, EXTREMELY_FAST) THEN SpeedExtremelyFast
    ELSE IF Ge(accuracyPercentage, 80) /\ Lt(timePerQuestion, HIGH_SCORE_FAST_TIME)
        THEN SpeedHighScoreFast
    ELSE IF Eq(accuracyPercentage, 100) /\ time_taken < PERFECT_SCORE_TIME_LIMIT
        THEN SpeedPerfectTooFast
    ELSE IF Lt(timePerQuestion, MINIMUM_EXPECTED_TIME) /\ Gt(accuracyPercentage, 50)
        THEN SpeedBelowMinimum
    ELSE SpeedNormal

\* a slip that labels the statistical outlier without flagging it
SpeedAnalysisOutlierUnflagged(timePerQuestion, accuracyPercentage, time_taken) ==
    IF Lt(timePerQuestion, IMPOSSIBLE_SPEED) THEN SpeedImpossible
    ELSE IF Lt(timePerQuestion, EXTREMELY_FAST) THEN SpeedExtremelyFast
    ELSE IF Eq(accuracyPercentage, 100) /\ time_taken < PERFECT_SCORE_TIME_LIMIT
        THEN SpeedPerfectTooFast
    ELSE IF Ge(accuracyPercentage, 80) /\ Lt(timePerQuestion, HIGH_SCORE_FAST_TIME)
        THEN SpeedHighScoreFast
    ELSE IF Lt(timePerQuestion, MINIMUM_EXPECTED_TIME) /\ Gt(accuracyPercentage, 50)
        THEN SpeedVerdict(FALSE, "", 0, "Below Expected Minimum")
    ELSE SpeedNormal

SpeedAnalysis(timePerQuestion, accuracyPercentage, time_taken) ==
    IF Lt(timePerQuestion, IMPOSSIBLE_SPEED) THEN SpeedImpossible
    ELSE IF Lt(timePerQuestion, EXTREMELY_FAST) THEN SpeedExtremelyFast
    ELSE IF Eq(accuracyPercentage, 100) /\ time_taken < PERFECT_SCORE_TIME_LIMIT
        THEN SpeedPerfectTooFast
    ELSE IF Ge(accuracyPercentage, 80) /\ Lt(timePerQuestion, HIGH_SCORE_FAST_TIME)
        THEN SpeedHighScoreFast
    ELSE IF Lt(timePerQuestion, MINIMUM_EXPECTED_TIME) /\ Gt(accuracyPercentage, 50)
        THEN SpeedBelowMinimum
    ELSE SpeedNormal

\* streak === total_questions
StreakIsTotal(streak, total_questions) ==
    IsNumber(streak) /\ streak.v = total_questions

\* streak >= total_questions * 0.8
StreakIsHigh(streak, total_questions) ==
    IsNumber(streak) /\ streak.v * 10 >= total_questions * 8

PerfectStreakLabel == "Perfect streak with fast completion - Highly Suspicious"
PerfectStreakReason == "Perfect streak achieved with suspiciously fast timing"

\* a slip that lets the pattern rule overwrite what a speed rule has set
PatternAnalysisOverwrites(speed, streak, total_questions, timePerQuestion) ==
    IF StreakIsTotal(streak, total_questions) /\ Lt(timePerQuestion, 3)
    THEN [isSuspicious |-> TRUE, suspicionReason |-> PerfectStreakReason,
          confidenceScore |-> 80, patternAnalysis |-> PerfectStreakLabel]
    ELSE [isSuspicious |-> speed.isSuspicious,
          suspicionReason |-> speed.suspicionReason,
          confidenceScore |-> speed.confidenceScore,
          patternAnalysis |-> IF StreakIsHigh(streak, total_questions)
                              THEN "High streak percentage" ELSE "Normal"]

\* a slip that takes the perfect-streak branch at 3 seconds per question too
PatternAnalysisInclusive(speed, streak, total_questions, timePerQuestion) ==
    IF StreakIsTotal(streak, total_questions) /\ ~Gt(timePerQuestion, 3)
    THEN IF ~speed.isSuspicious
         THEN [isSuspicious |-> TRUE, suspicionReason |-> PerfectStreakReason,
               confidenceScore |-> 80, patternAnalysis |-> PerfectStreakLabel]
         ELSE [isSuspicious |-> speed.isSuspicious,
               suspicionReason |-> speed.suspicionReason,
               confidenceScore |-> speed.confidenceScore,
               patternAnalysis |-> PerfectStreakLabel]
    ELSE [isSuspicious |-> speed.isSuspicious,
          suspicionReason |-> speed.suspicionReason,
          confidenceScore |-> speed.confidenceScore,
          patternAnalysis |-> IF StreakIsHigh(streak, total_questions)
                              THEN "High streak percentage" ELSE "Normal"]

\* a slip that only labels the perfect streak and never flags on it
PatternAnalysisLabelOnly(speed, streak, total_questions, timePerQuestion) ==
    [isSuspicious |-> speed.isSuspicious,
     suspicionReason |-> speed.suspicionReason,
     confidenceScore |-> speed.confidenceScore,
     patternAnalysis |->
        IF StreakIsTotal(streak, total_questions) /\ Lt(timePerQuestion, 3)
        THEN PerfectStreakLabel
        ELSE IF StreakIsHigh(streak, total_questions)
        THEN "High streak percentage" ELSE "Normal"]

\* a slip that takes a streak for fast below 6 seconds per question
PatternAnalysisWiderWindow(speed, streak, total_questions, timePerQuestion) ==
    IF StreakIsTotal(streak, total_questions) /\ Lt(timePerQuestion, 6)
    THEN IF ~speed.isSuspicious
         THEN [isSuspicious |-> TRUE, suspicionReason |-> PerfectStreakReason,
               confidenceScore |-> 80, patternAnalysis |-> PerfectStreakLabel]
         ELSE [isSuspicious |-> speed.isSuspicious,
               suspicionReason |-> speed.suspicionReason,
               confidenceScore |-> speed.confidenceScore,
               patternAnalysis |-> PerfectStreakLabel]
    ELSE [isSuspicious |-> speed.isSuspicious,
          suspicionReason |-> speed.suspicionReason,
          confidenceScore |-> speed.confidenceScore,
          patternAnalysis |-> IF StreakIsHigh(streak, total_questions)
                              THEN "High streak percentage" ELSE "Normal"]

\* the pattern analysis, applied to what the speed rules left
PatternAnalysis(speed, streak, total_questions, timePerQuestion) ==
    IF StreakIsTotal(streak, total_questions) /\ Lt(timePerQuestion, 3)
    THEN IF ~speed.isSuspicious
         THEN [isSuspicious |-> TRUE, suspicionReason |-> PerfectStreakReason,
               confidenceScore |-> 80, patternAnalysis |-> PerfectStreakLabel]
         ELSE [isSuspicious |-> speed.isSuspicious,
               suspicionReason |-> speed.suspicionReason,
               confidenceScore |-> speed.confidenceScore,
               patternAnalysis |-> PerfectStreakLabel]
    ELSE [isSuspicious |-> speed.isSuspicious,
          suspicionReason |-> speed.suspicionReason,
          confidenceScore |-> speed.confidenceScore,
          patternAnalysis |-> IF StreakIsHigh(streak, total_questions)
                              THEN "High streak percentage" ELSE "Normal"]

\* a slip that lets a flag stored earlier weigh on the verdict
performAnomalyDetectionRemembers(request) ==
    LET score == request.score.v
        total_questions == request.total_questions.v
        time_taken == request.time_taken.v
        streak == request.streak
        timePerQuestion == Div(time_taken, total_questions)
        accuracyPercentage == Times(Div(score, total_questions), 100)
        speed == SpeedAnalysis(timePerQuestion, accuracyPercentage, time_taken)
        final == PatternAnalysis(speed, streak, total_questions, timePerQuestion)
    IN  [is_suspicious |-> final.isSuspicious \/ sessionFlag.is_suspicious,
         suspicion_reason |-> final.suspicionReason,
         confidence_score |-> final.confidenceScore,
         analysis_details |->
            [time_per_question |-> timePerQuestion,
             accuracy_percentage |-> accuracyPercentage,
             speed_analysis |-> speed.speedAnalysis,
             pattern_analysis |-> final.patternAnalysis]]

performAnomalyDetection(request) ==
    LET score == request.score.v
        total_questions == request.total_questions.v
        time_taken == request.time_taken.v
        streak == request.streak
        timePerQuestion == Div(time_taken, total_questions)
        accuracyPercentage == Times(Div(score, total_questions), 100)
        speed == SpeedAnalysis(timePerQuestion, accuracyPercentage, time_taken)
        final == PatternAnalysis(speed, streak, total_questions, timePerQuestion)
    IN  [is_suspicious |-> final.isSuspicious,
         suspicion_reason |-> final.suspicionReason,
         confidence_score |-> final.confidenceScore,
         analysis_details |->
            [time_per_question |-> timePerQuestion,
             accuracy_percentage |-> accuracyPercentage,
             speed_analysis |-> speed.speedAnalysis,
             pattern_analysis |-> final.patternAnalysis]]

NoResult == [is_suspicious |-> FALSE, suspicion_reason |-> "",
             confidence_score |-> 0,
             analysis_details |->
                [time_per_question |-> Div(0, 0),
                 accuracy_percentage |-> Div(0, 0),
                 speed_analysis |-> "", pattern_analysis |-> ""]]

----------------------------------------------------------------------------
(* The optional LLM analysis of the integrity endpoint *)

LLMSkipped == [is_suspicious |-> FALSE, reason |-> NoValue, confidence |-> Num(0)]

\* what the OpenAI call can come back with
LLMOutcomes ==
    {[kind |-> k, analysis |-> LLMSkipped] :
        k \in {"no_key", "http_error", "no_content", "bad_json", "fetch_error"}}
    \cup
    {[kind |-> "parsed", analysis |-> a] : a \in
        {[is_suspicious |-> TRUE, reason |-> Str("llm reason"), confidence |-> Num(90)],
         [is_suspicious |-> FALSE, reason |-> NoValue, confidence |-> Num(30)],
         [is_suspicious |-> TRUE, reason |-> Str("llm reason"), confidence |-> Num(150)],
         [is_suspicious |-> TRUE, reason |-> NoValue, confidence |-> Str("high")]}}

\* x || 0 on a confidence value
OrZero(x) ==
    IF x.t = "undefined" \/ (x.t = "number" /\ x.v = 0) \/ (x.t = "string" /\ x.v = "")
    THEN Num(0) ELSE x

performLLMAnalysis(outcome) ==
    IF outcome.kind = "parsed"
    THEN [is_suspicious |-> outcome.analysis.is_suspicious,
          reason |-> outcome.analysis.reason,
          confidence |-> OrZero(outcome.analysis.confidence)]
    ELSE LLMSkipped

\* Math.max(a, b) of a number a and a JavaScript value b
MathMax(a, b) ==
    IF b.t = "number" THEN Num(IF a >= b.v THEN a ELSE b.v)
    ELSE [t |-> "NaN", v |-> 0]

\* a slip that lets the LLM's reason replace the scorer's
finalResultPrefersLLM(anomaly, llm) ==
    [is_suspicious |-> anomaly.is_suspicious \/ llm.is_suspicious,
     suspicion_reason |-> IF llm.is_suspicious
                          THEN llm.reason ELSE Str(anomaly.suspicion_reason),
     confidence_score |-> MathMax(anomaly.confidence_score, llm.confidence),
     analysis_details |-> anomaly.analysis_details]

\* the combination of the two analyses
finalResult(anomaly, llm) ==
    [is_suspicious |-> anomaly.is_suspicious \/ llm.is_suspicious,
     suspicion_reason |-> IF anomaly.is_suspicious
                          THEN Str(anomaly.suspicion_reason) ELSE llm.reason,
     confidence_score |-> MathMax(anomaly.confidence_score, llm.confidence),
     analysis_details |-> anomaly.analysis_details]

----------------------------------------------------------------------------
(* The integrity endpoint *)

\* !x
Falsy(x) ==
    \/ x.t = "undefined"
    \/ x.t = "string" /\ x.v = ""
    \/ x.t = "number" /\ x.v = 0

HNumbers == {Num(n) : n \in 0..HMaxQuestions}

RequestBodies ==
    [session_id : {Str("s1"), NoValue},
     user_id : {Str("u1"), NoValue},
     score : HNumbers \cup {NoValue},
     total_questions : HNumbers \cup {NoValue},
     time_taken : {Num(n) : n \in 0..HMaxTime} \cup {NoValue},
     streak : HNumbers \cup {NoValue}]

NoRequest == [session_id |-> NoValue, user_id |-> NoValue, score |-> NoValue,
              total_questions |-> NoValue, time_taken |-> NoValue,
              streak |-> NoValue]

NoBody == [is_suspicious |-> FALSE, suspicion_reason |-> NoValue,
           confidence_score |-> Num(0),
           analysis_details |-> NoResult.analysis_details]

NoResponse == [status |-> 0, error |-> "", body |-> NoBody]

\* the input validation of the handler
InputInvalid(request) ==
    \/ Falsy(request.session_id)
    \/ Falsy(request.user_id)
    \/ ~IsNumber(request.score)
    \/ ~IsNumber(request.total_questions)
    \/ ~IsNumber(request.time_taken)

OkResponse(final) == [status |-> 200, error |-> "", body |-> final]

\* the request body cannot be parsed: req.json() throws into the outer catch
HandleMalformedBody ==
    /\ pc = "idle"
    /\ pc' = "done"
    /\ response' = [NoResponse EXCEPT !.status = 500,
                                      !.error = "Internal server error"]
    /\ UNCHANGED <<req, anomalyResult, llmResult, sessionFlag>>
    /\ UNCHANGED <<avars, fvars, dvars, ovars>>

\* the handler up to its first await on the network: parse, validate, score
HandleRequest(body) ==
    /\ pc = "idle"
    /\ req' = body
    /\ IF InputInvalid(body)
       THEN /\ pc' = "done"
            /\ response' = [NoResponse EXCEPT !.status = 400,
                   !.error = "Invalid input. All fields are required and must be valid."]
            /\ UNCHANGED anomalyResult
       ELSE /\ pc' = "llm"
            /\ anomalyResult' = performAnomalyDetection(body)
            /\ UNCHANGED response
    /\ UNCHANGED <<llmResult, sessionFlag>>
    /\ UNCHANGED <<avars, fvars, dvars, ovars>>

\* performLLMAnalysis returns; the results are combined
LLMAnalysisReturns(outcome) ==
    /\ pc = "llm"
    /\ llmResult' = performLLMAnalysis(outcome)
    /\ LET final == finalResult(anomalyResult, llmResult')
       IN  IF final.is_suspicious
           THEN pc' = "update" /\ UNCHANGED response
           ELSE pc' = "done" /\ response' = OkResponse(final)
    /\ UNCHANGED <<req, anomalyResult, sessionFlag>>
    /\ UNCHANGED <<avars, fvars, dvars, ovars>>

\* a slip that answers a failed quiz_sessions update with an error
UpdateReturnsFatal(ok) ==
    /\ pc = "update"
    /\ LET final == finalResult(anomalyResult, llmResult)
       IN  /\ sessionFlag' = IF ok
                             THEN [is_suspicious |-> TRUE,
                                   suspicion_reason |-> final.suspicion_reason]
                             ELSE sessionFlag
           /\ response' = IF ok THEN OkResponse(final)
                          ELSE [NoResponse EXCEPT !.status = 500,
                                                  !.error = "Internal server error"]
    /\ pc' = "done"
    /\ UNCHANGED <<req, anomalyResult, llmResult>>
    /\ UNCHANGED <<avars, fvars, dvars, ovars>>

\* the quiz_sessions update returns, with or without an error
UpdateReturns(ok) ==
    /\ pc = "update"
    /\ LET final == finalResult(anomalyResult, llmResult)
       IN  /\ sessionFlag' = IF ok
                             THEN [is_suspicious |-> TRUE,
                                   suspicion_reason |-> final.suspicion_reason]
                             ELSE sessionFlag
           /\ response' = OkResponse(final)
    /\ pc' = "done"
    /\ UNCHANGED <<req, anomalyResult, llmResult>>
    /\ UNCHANGED <<avars, fvars, dvars, ovars>>

InitIntegrity ==
    /\ pc = "idle"
    /\ req = NoRequest
    /\ anomalyResult = NoResult
    /\ llmResult = LLMSkipped
    /\ response = NoResponse
    /\ sessionFlag = [is_suspicious |-> FALSE, suspicion_reason |-> NoValue]
    /\ AdapterUnused
    /\ FallbackUnused
    /\ RestUnused

NextIntegrity ==
    \/ HandleMalformedBody
    \/ \E body \in RequestBodies : HandleRequest(body)
    \/ \E outcome \in LLMOutcomes : LLMAnalysisReturns(outcome)
    \/ \E ok \in BOOLEAN : UpdateReturns(ok)

----------------------------------------------------------------------------
(* The scorer on its own: every attempt with total_questions > 0 *)

ScorerInputs ==
    [session_id : {Str("s1")},
     user_id : {Str("u1")},
     score : {Num(n) : n \in 0..MaxQuestions},
     total_questions : {Num(n) : n \in 1..MaxQuestions},
     time_taken : {Num(n) : n \in 0..MaxTime},
     streak : {Num(n) : n \in 0..MaxQuestions}]

\* an unhurried attempt, beyond the range of ScorerInputs: 3 of 10 in 100 s
ScorerExamples ==
    {[session_id |-> Str("s1"), user_id |-> Str("u1"), score |-> Num(3),
      total_questions |-> Num(10), time_taken |-> Num(100), streak |-> Num(3)]}

ScorerRun ==
    /\ pc = "scorer"
    /\ anomalyResult' = performAnomalyDetection(req)
    /\ pc' = "scored"
    /\ UNCHANGED <<req, llmResult, response, sessionFlag>>
    /\ UNCHANGED <<avars, fvars, dvars, ovars>>

InitScorer ==
    /\ pc = "scorer"
    /\ req \in ScorerInputs \cup ScorerExamples
    /\ anomalyResult = NoResult
    /\ llmResult = LLMSkipped
    /\ response = NoResponse
    /\ sessionFlag = [is_suspicious |-> FALSE, suspicion_reason |-> NoValue]
    /\ AdapterUnused
    /\ FallbackUnused
    /\ RestUnused

NextScorer == ScorerRun

SpecIntegrity == InitIntegrity /\ [][NextIntegrity]_vars
SpecScorer == InitScorer /\ [][NextScorer]_vars

----------------------------------------------------------------------------
(* The scorer called again and again, by requests of any session and user,
   while the stored session flag follows its verdicts *)

RMaxQuestions == 1      \* repeated requests: total_questions, score, streak
RMaxTime == 2           \* repeated requests: time_taken in seconds

\* requests of one user's session and of another user's session
RepeatedInputs ==
    UNION {[session_id : {Str(who[1])},
            user_id : {Str(who[2])},
            score : {Num(n) : n \in 0..RMaxQuestions},
            total_questions : {Num(n) : n \in 1..RMaxQuestions},
            time_taken : {Num(n) : n \in 0..RMaxTime},
            streak : {Num(n) : n \in 0..RMaxQuestions}] :
           who \in {<<"s1", "u1">>, <<"s2", "u2">>}}

\* the fields performAnomalyDetection takes out of its request
ScorerFields(request) ==
    <<request.score, request.total_questions, request.time_taken, request.streak>>

\* one evaluation; the stored flag of the session follows a suspicious verdict
ScorerRunsAgain ==
    /\ pc = "scorer"
    /\ anomalyResult' = performAnomalyDetection(req)
    /\ firstEvaluation' = IF firstEvaluation = NoEvaluation
                          THEN [request |-> req, result |-> anomalyResult']
                          ELSE firstEvaluation
    /\ sessionFlag' = IF anomalyResult'.is_suspicious
                      THEN [is_suspicious |-> TRUE,
                            suspicion_reason |-> Str(anomalyResult'.suspicion_reason)]
                      ELSE sessionFlag
    /\ pc' = "scored"
    /\ UNCHANGED <<req, llmResult, response>>
    /\ UNCHANGED <<avars, fvars, dvars, qvars, tvars>>

\* the next request arrives
NextRequest(request) ==
    /\ pc = "scored"
    /\ req' = request
    /\ anomalyResult' = NoResult
    /\ pc' = "scorer"
    /\ UNCHANGED <<llmResult, response, sessionFlag>>
    /\ UNCHANGED <<avars, fvars, dvars, ovars>>

InitScorerRepeated ==
    /\ pc = "scorer"
    /\ req \in {request \in RepeatedInputs :
                   request.session_id = Str("s1") /\ request.user_id = Str("u1")}
    /\ anomalyResult = NoResult
    /\ llmResult = LLMSkipped
    /\ response = NoResponse
    /\ sessionFlag = [is_suspicious |-> FALSE, suspicion_reason |-> NoValue]
    /\ AdapterUnused
    /\ FallbackUnused
    /\ NotEvaluated
    /\ GameUnused
    /\ TablesUnused

NextScorerRepeated ==
    \/ ScorerRunsAgain
    \/ \E request \in RepeatedInputs : NextRequest(request)

SpecScorerRepeated == InitScorerRepeated /\ [][NextScorerRepeated]_vars

----------------------------------------------------------------------------
(* The PythonAnywhere question adapter of generate-questions.  An option   *)
(* string is its text without surrounding whitespace (v) and whether       *)
(* whitespace surrounds it (pad): trim() drops the whitespace.             *)

Text(v, pad) == [t |-> "string", v |-> v, pad |-> pad]
Blank == Text("", TRUE)

\* s.trim()
Trim(s) == s.v

\* s && typeof s === 'string': a string that is not empty
NonEmptyString(s) == s.t = "string" /\ (s.v # "" \/ s.pad)

\* s && typeof s === 'string' && s.trim()
Usable(s) == NonEmptyString(s) /\ Trim(s) # ""

optionKeys == <<"Option1", "Option2", "Option3", "Option4", "Option5">>

\* array.includes(x)
Includes(array, x) == \E i \in 1..Len(array) : array[i] = x

\* array.indexOf(x), 0-based, -1 when absent
IndexOf(array, x) ==
    IF Includes(array, x)
    THEN (CHOOSE i \in 1..Len(array) :
            array[i] = x /\ \A j \in 1..(i - 1) : array[j] # x) - 1
    ELSE 0 - 1

\* the loop over optionKeys that collects the trimmed usable options
RECURSIVE ExtractFrom(_, _)
ExtractFrom(Options, k) ==
    IF k > Len(optionKeys) THEN <<>>
    ELSE IF Usable(Options[optionKeys[k]])
         THEN <<Trim(Options[optionKeys[k]])>> \o ExtractFrom(Options, k + 1)
         ELSE ExtractFrom(Options, k + 1)

ParseRange == 0..9

\* a slip that takes the first option when the label is no number
ParseCorrectOptionDefaultsToFirst(label) ==
    IF \E n \in ParseRange : label = "Option" \o ToString(n) \/ label = ToString(n)
    THEN CHOOSE n \in ParseRange : label = "Option" \o ToString(n) \/ label = ToString(n)
    ELSE 1

\* parseInt(label.replace('Option', '')); -1 stands for NaN
ParseCorrectOption(label) ==
    IF \E n \in ParseRange : label = "Option" \o ToString(n) \/ label = ToString(n)
    THEN CHOOSE n \in ParseRange : label = "Option" \o ToString(n) \/ label = ToString(n)
    ELSE 0 - 1

\* more than 4 options: keep the first 4, the correct one in the 4th place
\* when it was the 5th
KeepFour(options, correctAnswerIndex) ==
    IF Len(options) > 4
    THEN IF correctAnswerIndex >= 4
         THEN SubSeq(options, 1, 3) \o <<options[correctAnswerIndex + 1]>>
         ELSE SubSeq(options, 1, 4)
    ELSE options

\* while (finalOptions.length < 4) finalOptions.push(`Option ${length + 1}`)
RECURSIVE PadGeneric(_)
PadGeneric(options) ==
    IF Len(options) < 4
    THEN PadGeneric(Append(options, "Option " \o ToString(Len(options) + 1)))
    ELSE options

\* the loop that keeps the first occurrence of every option
RECURSIVE Deduplicate(_, _)
Deduplicate(options, uniqueOptions) ==
    IF options = <<>> THEN uniqueOptions
    ELSE Deduplicate(Tail(options),
                     IF Includes(uniqueOptions, Head(options))
                     THEN uniqueOptions
                     ELSE Append(uniqueOptions, Head(options)))

\* the inner loop that looks for an unused `Alternative n_counter`
RECURSIVE FreeAlternative(_, _, _)
FreeAlternative(uniqueOptions, genericOption, counter) ==
    IF Includes(uniqueOptions, genericOption)
    THEN FreeAlternative(uniqueOptions,
            "Alternative " \o ToString(Len(uniqueOptions)) \o "_" \o ToString(counter),
            counter + 1)
    ELSE genericOption

\* a slip that pushes `Alternative n` without looking for it among the options
RECURSIVE PadAlternativesUnchecked(_)
PadAlternativesUnchecked(uniqueOptions) ==
    IF Len(uniqueOptions) < 4
    THEN PadAlternativesUnchecked(Append(uniqueOptions,
            "Alternative " \o ToString(Len(uniqueOptions))))
    ELSE uniqueOptions

\* while (uniqueOptions.length < 4) push a generic alternative
RECURSIVE PadAlternatives(_)
PadAlternatives(uniqueOptions) ==
    IF Len(uniqueOptions) < 4
    THEN PadAlternatives(Append(uniqueOptions,
            FreeAlternative(uniqueOptions,
                "Alternative " \o ToString(Len(uniqueOptions)), 1)))
    ELSE uniqueOptions

\* the random draws of one shuffle of n items: j = floor(random() * (i + 1))
\* for i = n-1 .. 1, so 0 <= j <= i
RandomDraws(n) == {r \in [1..(n - 1) -> 0..(n - 1)] : \A i \in 1..(n - 1) : r[i] <= i}

\* [a[i], a[j]] = [a[j], a[i]] on 0-based positions
Swap(array, i, j) ==
    [k \in 1..Len(array) |->
        IF k = i + 1 THEN array[j + 1] ELSE IF k = j + 1 THEN array[i + 1] ELSE array[k]]

\* Fisher-Yates: for (i = length - 1; i > 0; i--) swap i with the draw j
RECURSIVE ShuffleFrom(_, _, _)
ShuffleFrom(array, i, draws) ==
    IF i > 0 THEN ShuffleFrom(Swap(array, i, draws[i]), i - 1, draws) ELSE array

shuffleArray(array, draws) == ShuffleFrom(array, Len(array) - 1, draws)

Thrown(message) == [ok |-> FALSE, error |-> message]

\* a slip that looks the correct option up by its position before the shuffle
LocateAfterShuffleByOldIndex(shuffledOptions, finalOptions, correctAnswer) ==
    IndexOf(finalOptions, correctAnswer)

\* newCorrectIndex = shuffledOptions.indexOf(correctAnswer)
LocateAfterShuffle(shuffledOptions, finalOptions, correctAnswer) ==
    IndexOf(shuffledOptions, correctAnswer)

\* one iteration of the loop of tryPythonAnywhere, after the fetch returned
BuildQuestion(apiResponse, draws) ==
    IF apiResponse.kind = "http_error"
        THEN Thrown("PythonAnywhere API error: API returned status 500")
    ELSE IF apiResponse.kind = "bad_json"
        THEN Thrown("Invalid JSON response from PythonAnywhere API")
    ELSE IF apiResponse.kind = "api_error"
        THEN Thrown("PythonAnywhere API error: error field")
    ELSE IF apiResponse.kind = "no_ai"
        THEN Thrown("Invalid response format: missing or invalid AI field")
    ELSE IF apiResponse.kind = "bad_ai_json"
        THEN Thrown("Invalid JSON in AI field")
    ELSE LET questionData == apiResponse.data IN
    IF ~NonEmptyString(questionData.Question)
        THEN Thrown("Invalid response format: missing or invalid Question field")
    ELSE IF questionData.Options = NoValue
        THEN Thrown("Invalid response format: missing or invalid Options field")
    ELSE IF questionData.CorrectOption = ""
        THEN Thrown("Invalid response format: missing or invalid CorrectOption field")
    ELSE LET extractedOptions == ExtractFrom(questionData.Options, 1) IN
    IF Len(extractedOptions) < 2
        THEN Thrown("Invalid response format: only "
                    \o ToString(Len(extractedOptions))
                    \o " valid options found, need at least 2")
    ELSE LET correctOptionNumber == ParseCorrectOption(questionData.CorrectOption) IN
    IF correctOptionNumber < 1 \/ correctOptionNumber > Len(extractedOptions)
        THEN Thrown("Invalid correct option: " \o questionData.CorrectOption)
    ELSE LET correctAnswerIndex == correctOptionNumber - 1
             padded == PadGeneric(KeepFour(extractedOptions, correctAnswerIndex))
             correctAnswer ==
                padded[(IF correctAnswerIndex < 3 THEN correctAnswerIndex ELSE 3) + 1]
             uniqueOptions == PadAlternatives(Deduplicate(padded, <<>>))
             finalOptions == SubSeq(uniqueOptions, 1, 4)
             shuffledOptions == shuffleArray(finalOptions, draws)
             newCorrectIndex ==
                LocateAfterShuffle(shuffledOptions, finalOptions, correctAnswer)
         IN  IF newCorrectIndex = 0 - 1
             THEN Thrown("Internal error: correct answer lost during option shuffling")
             ELSE [ok |-> TRUE,
                   question |-> [question_text |-> Trim(questionData.Question),
                                 options |-> shuffledOptions,
                                 correct_answer |-> newCorrectIndex]]

\* option texts that read like the labels the adapter pads with
PaddingLabels == <<"Option 3", "Alternative 3", "Option 4", "Alternative 2", "Option 4">>

\* the option texts the model lets the API put under Option<i>
OptionValues(i) ==
    {NoValue, Blank, Text("t" \o ToString(i), TRUE), Text("t1", FALSE),
     Text(PaddingLabels[i], FALSE)}

OptionSets ==
    [Option1 : OptionValues(1), Option2 : OptionValues(2), Option3 : OptionValues(3),
     Option4 : OptionValues(4), Option5 : OptionValues(5)]

CorrectOptionLabels ==
    {"Option" \o ToString(n) : n \in 1..6} \cup {"Answer"}

FailedResponses ==
    {[kind |-> k, data |-> NoValue] :
        k \in {"http_error", "bad_json", "api_error", "no_ai", "bad_ai_json"}}

QuestionResponses ==
    {[kind |-> "data",
      data |-> [Question |-> Text("What?", TRUE), Options |-> O, CorrectOption |-> c]] :
        O \in OptionSets, c \in CorrectOptionLabels}
    \cup
    {[kind |-> "data", data |-> d] : d \in
        {[Question |-> NoValue, Options |-> NoValue, CorrectOption |-> "Option1"],
         [Question |-> Text("What?", FALSE), Options |-> NoValue,
          CorrectOption |-> "Option1"],
         [Question |-> Text("What?", FALSE),
          Options |-> [k \in {optionKeys[i] : i \in 1..5} |-> Text("t1", FALSE)],
          CorrectOption |-> ""]}}

\* the rest of a loop iteration once the fetch has returned apiResponse: the
\* question is built and pushed, or the error is thrown
PushQuestion(apiResponse, draws) ==
    /\ paResponse' = apiResponse
    /\ paOutcome' = BuildQuestion(apiResponse, draws)
    /\ paQuestions' = IF paOutcome'.ok
                      THEN Append(paQuestions, paOutcome'.question)
                      ELSE paQuestions

\* the adapter turns one API answer into a question, with some shuffle
AdapterBuilds(draws) ==
    /\ pc = "adapter"
    /\ PushQuestion(paResponse, draws)
    /\ pc' = "adapter_done"
    /\ UNCHANGED <<ivars, fvars, dvars, ovars>>

IntegrityUnused ==
    /\ req = NoRequest
    /\ anomalyResult = NoResult
    /\ llmResult = LLMSkipped
    /\ response = NoResponse
    /\ sessionFlag = [is_suspicious |-> FALSE, suspicion_reason |-> NoValue]

InitAdapter ==
    /\ pc = "adapter"
    /\ paResponse \in FailedResponses \cup QuestionResponses
    /\ paOutcome = NoOutcome
    /\ paQuestions = <<>>
    /\ IntegrityUnused
    /\ FallbackUnused
    /\ RestUnused

NextAdapter == \E draws \in RandomDraws(4) : AdapterBuilds(draws)

SpecAdapter == InitAdapter /\ [][NextAdapter]_vars

----------------------------------------------------------------------------
(* The provider fallback of generate-questions, ai-tutor-chat and          *)
(* translate-text                                                          *)

Handlers == {"generate-questions", "ai-tutor-chat", "translate-text"}

allProviders == <<"openai", "huggingface", "pythonanywhere">>

EnvValues == {NoValue, Str(""), Str("openai"), Str("huggingface"),
              Str("pythonanywhere"), Str("gemini")}

\* Deno.env.get('AI_PROVIDER') || 'openai'
aiProvider == IF Falsy(aiProviderEnv) THEN "openai" ELSE aiProviderEnv.v

\* a slip that falls back to the default order for an unknown AI_PROVIDER
ProviderOrderDefaultsToOpenAI(configured) ==
    IF configured = "huggingface" THEN <<"huggingface", "openai", "pythonanywhere">>
    ELSE IF configured = "pythonanywhere"
    THEN <<"pythonanywhere", "openai", "huggingface">>
    ELSE <<"openai", "huggingface", "pythonanywhere">>

\* a slip that rotates the list to the preferred provider instead of moving
\* the preferred provider to the front
ProviderOrderRotates(configured) ==
    IF configured = "openai" THEN <<"openai", "huggingface", "pythonanywhere">>
    ELSE IF configured = "huggingface"
    THEN <<"huggingface", "pythonanywhere", "openai">>
    ELSE <<"pythonanywhere", "openai", "huggingface">>

\* the order in which the providers are tried
ProviderOrder(configured) ==
    IF configured = "openai" THEN <<"openai", "huggingface", "pythonanywhere">>
    ELSE IF configured = "huggingface"
    THEN <<"huggingface", "openai", "pythonanywhere">>
    ELSE <<"pythonanywhere", "openai", "huggingface">>

\* s.toLowerCase() on the language names of the model
ToLowerCase(s) ==
    CASE s = "EN" -> "en" [] s = "English" -> "english" [] s = "FR" -> "fr"
      [] OTHER -> s

FallbackBodies(h) ==
    IF h = "generate-questions"
    THEN [topic : {Text("stars", FALSE), Text("", FALSE), NoValue, Num(5)},
          count : {Num(n) : n \in 0..MaxCount} \cup {Num(21), NoValue},
          difficulty : {NoValue, Str("hard")}]
    ELSE IF h = "ai-tutor-chat"
    THEN [message : {Text("why is the sky dark", FALSE), Blank, NoValue}]
    ELSE [text : {Text("hello", FALSE), Text("hello", TRUE), Blank, NoValue},
          targetLang : {Text("fr", FALSE), Text("en", FALSE), Text("EN", FALSE),
                        Text("English", FALSE), Text("en", TRUE), Blank, NoValue}]

\* !!x on a field that holds a text, a number or nothing
Truthy(x) == IF x.t = "string" THEN NonEmptyString(x) ELSE ~Falsy(x)

\* the input validation of each handler
FallbackInputInvalid(h, body) ==
    IF h = "generate-questions"
    THEN \/ ~Truthy(body.topic)
         \/ Falsy(body.count)
         \/ body.count.v < 1
         \/ body.count.v > 20
    ELSE IF h = "ai-tutor-chat"
    THEN ~Usable(body.message)
    ELSE ~Usable(body.text) \/ ~Usable(body.targetLang)

\* a slip that compares the language name as it was sent
IsEnglishCaseSensitive(h, body) ==
    /\ h = "translate-text"
    /\ body.targetLang.v \in {"en", "english"}
    /\ ~body.targetLang.pad

\* translate-text answers a request for English without any provider
IsEnglish(h, body) ==
    /\ h = "translate-text"
    /\ ToLowerCase(body.targetLang.v) \in {"en", "english"}
    /\ ~body.targetLang.pad

HttpError(status, error, details) ==
    [status |-> status,
     body |-> [NoHttpBody EXCEPT !.error = error, !.details = details]]

\* the handler up to the provider loop: parse, validate, provider order
FallbackReceives(h, body) ==
    /\ pc = "idle"
    /\ handler' = h
    /\ freq' = body
    /\ IF FallbackInputInvalid(h, body)
       THEN /\ pc' = "done"
            /\ httpResponse' = HttpError(400, "Invalid input", "")
            /\ UNCHANGED <<providers, attempt>>
       ELSE IF IsEnglish(h, body)
       THEN /\ pc' = "done"
            /\ httpResponse' =
                 [status |-> 200,
                  body |-> [NoHttpBody EXCEPT !.success = TRUE,
                                              !.result = body.text,
                                              !.provider_used = "none",
                                              !.fallback_used = FALSE]]
            /\ UNCHANGED <<providers, attempt>>
       ELSE /\ pc' = "loop"
            /\ providers' = ProviderOrder(aiProvider)
            /\ attempt' = 1
            /\ UNCHANGED httpResponse
    /\ UNCHANGED <<aiProviderEnv, calls, usedProvider, lastError, generatedContent>>
    /\ UNCHANGED <<ivars, avars, dvars, ovars>>

\* req.json() throws into the outer catch
FallbackMalformedBody(h) ==
    /\ pc = "idle"
    /\ handler' = h
    /\ pc' = "done"
    /\ httpResponse' = HttpError(500, "Internal server error", "Unexpected token")
    /\ UNCHANGED <<aiProviderEnv, freq, providers, attempt, calls, usedProvider,
                   lastError, generatedContent>>
    /\ UNCHANGED <<ivars, avars, dvars, ovars>>

\* the loop body calls the adapter of providers[attempt] and awaits it
StartAttempt ==
    /\ pc = "loop"
    /\ calls' = Append(calls, [provider |-> providers[attempt], outcome |-> "pending",
                                  message |-> ""])
    /\ pc' = "awaiting"
    /\ UNCHANGED <<handler, aiProviderEnv, freq, providers, attempt, usedProvider,
                   lastError, generatedContent, httpResponse>>
    /\ UNCHANGED <<ivars, avars, dvars, ovars>>

\* the value of correct_answer in the parsed JSON: the number n / d, or the
\* string that spells the integer n
JsonNumber(n, d) == [t |-> "number", n |-> n, d |-> d]
JsonString(n) == [t |-> "string", n |-> n, d |-> 1]

\* a question of the adapter after JSON.stringify and JSON.parse
JsonQuestion(q) ==
    [question_text |-> q.question_text, options |-> q.options, is_array |-> TRUE,
     correct_answer |-> JsonNumber(q.correct_answer, 1)]

\* the questions a model may have written: a sound one, and questions with
\* an index beyond the options, a fractional, negative or string index, five
\* options, one option, a string in place of the options array, no text
GoodQuestion == JsonQuestion([question_text |-> "What?",
                              options |-> <<"a", "b", "c", "d">>,
                              correct_answer |-> 1])
BadQuestion == [GoodQuestion EXCEPT !.correct_answer = JsonNumber(4, 1)]

FlawedQuestions ==
    {BadQuestion,
     [GoodQuestion EXCEPT !.correct_answer = JsonNumber(1, 2)],
     [GoodQuestion EXCEPT !.correct_answer = JsonNumber(0 - 1, 1)],
     [GoodQuestion EXCEPT !.correct_answer = JsonString(1)],
     [GoodQuestion EXCEPT !.options = <<"a", "b", "c", "d", "e">>],
     [GoodQuestion EXCEPT !.options = <<"a">>,
                          !.correct_answer = JsonNumber(0, 1)],
     [GoodQuestion EXCEPT !.is_array = FALSE],
     [GoodQuestion EXCEPT !.question_text = ""]}

TextContents == {[kind |-> "text", questions |-> <<>>]}

\* what tryOpenAI and tryHuggingFace of generate-questions can return: the
\* generated text, whether or not it is the JSON array that was asked for
GeneratedContents ==
    {[kind |-> "not_json", questions |-> <<>>],
     [kind |-> "object", questions |-> <<>>]}
    \cup {[kind |-> "array", questions |-> q] :
            q \in {<<GoodQuestion>>} \cup {<<flawed>> : flawed \in FlawedQuestions}
                    \cup {<<GoodQuestion, flawed>> : flawed \in FlawedQuestions}}

\* the messages of the errors an adapter throws
FailureMessages(provider) ==
    IF provider = "openai"
    THEN {"OpenAI API key not configured", "OpenAI API error: 429",
          "No content generated from OpenAI API"}
    ELSE IF provider = "huggingface"
    THEN {"Hugging Face API key not configured",
          "Hugging Face API error: API returned status 503"}
    ELSE {"PythonAnywhere API error: API returned status 500",
          "Invalid response format: missing or invalid AI field"}

\* the API answers and shuffles of tryPythonAnywhere inside the handler: a
\* well-formed answer, a label beyond the usable options, a label that is no
\* number, a single usable option, and answers that fail before the parse
HandlerOptions(usable) ==
    [k \in {optionKeys[i] : i \in 1..5} |->
        IF k \in {optionKeys[i] : i \in 1..usable}
        THEN Text("t" \o k, FALSE) ELSE NoValue]

HandlerResponses ==
    {[kind |-> k, data |-> NoValue] : k \in {"http_error", "bad_json"}}
    \cup
    {[kind |-> "data",
      data |-> [Question |-> Text("What?", TRUE), Options |-> HandlerOptions(4),
                CorrectOption |-> c]] : c \in {"Option2", "Option5", "Answer"}}
    \cup
    {[kind |-> "data",
      data |-> [Question |-> Text("What?", TRUE), Options |-> HandlerOptions(1),
                CorrectOption |-> "Option1"]]}

HandlerDraws == {[i \in 1..3 |-> i], [i \in 1..3 |-> 0]}

\* the loop of tryPythonAnywhere is still running: fewer than count questions
\* have been pushed and no iteration has thrown
PythonAnywhereRunning ==
    /\ pc = "awaiting"
    /\ handler = "generate-questions"
    /\ providers[attempt] = "pythonanywhere"
    /\ Len(paQuestions) < freq.count.v
    /\ (paOutcome = NoOutcome \/ paOutcome.ok)

\* the fetch of the current iteration returns and the iteration runs to its
\* end
PythonAnywhereAnswers(apiResponse, draws) ==
    /\ PythonAnywhereRunning
    /\ PushQuestion(apiResponse, draws)
    /\ UNCHANGED <<pc, ivars, fvars, dvars, ovars>>

\* what tryPythonAnywhere of generate-questions hands to its caller: the
\* error of the iteration that threw, or the questions once count are there
tryPythonAnywhere(count) ==
    IF paOutcome # NoOutcome /\ ~paOutcome.ok THEN {paOutcome}
    ELSE IF Len(paQuestions) >= count
    THEN {[ok |-> TRUE,
           content |-> [kind |-> "array",
                        questions |-> [i \in 1..Len(paQuestions) |->
                                          JsonQuestion(paQuestions[i])]]]}
    ELSE {}

\* the outcomes of the adapter of `provider` in handler h
AdapterOutcomes(h, provider, body) ==
    IF h = "generate-questions" /\ provider = "pythonanywhere"
    THEN tryPythonAnywhere(body.count.v)
    ELSE {Thrown(m) : m \in FailureMessages(provider)}
         \cup {[ok |-> TRUE, content |-> c] :
                 c \in IF h = "generate-questions"
                       THEN GeneratedContents ELSE TextContents}

\* the record of the call that has just returned
MarkLast(history, outcome, message) ==
    [history EXCEPT ![Len(history)].outcome = outcome,
                    ![Len(history)].message = message]

\* a slip that forgets the upper limit on the number of options
IsValidQuestionAnyLength(q) ==
    /\ q.question_text # ""
    /\ q.is_array
    /\ Len(q.options) >= 2
    /\ q.correct_answer.t = "number"
    /\ q.correct_answer.n >= 0
    /\ q.correct_answer.n < Len(q.options) * q.correct_answer.d

\* the filter over the generated questions
IsValidQuestion(q) ==
    /\ q.question_text # ""
    /\ q.is_array
    /\ Len(q.options) >= 2
    /\ Len(q.options) <= 4
    /\ q.correct_answer.t = "number"
    /\ q.correct_answer.n >= 0
    /\ q.correct_answer.n < Len(q.options) * q.correct_answer.d

validQuestions(generatedQuestions) == SelectSeq(generatedQuestions, IsValidQuestion)

\* usedProvider !== aiProvider
FallbackUsed(provider) == provider # aiProvider

SuccessResponse(provider, result, count) ==
    [status |-> 200,
     body |-> [NoHttpBody EXCEPT !.success = TRUE,
                                 !.result = result,
                                 !.generated_count = count,
                                 !.provider_used = provider,
                                 !.fallback_used = FallbackUsed(provider)]]

\* what follows the loop once an adapter has returned
AfterLoop(provider, content) ==
    IF handler # "generate-questions"
    THEN /\ pc' = "done"
         /\ httpResponse' = SuccessResponse(provider, content, 0)
    ELSE IF content.kind = "not_json"
    THEN /\ pc' = "done"
         /\ httpResponse' = HttpError(500, "Invalid response format from AI service",
                                      "Could not parse AI response as valid JSON")
    ELSE IF content.kind = "object"
    THEN /\ pc' = "done"
         /\ httpResponse' = HttpError(500, "Internal server error",
                                      "generatedQuestions.filter is not a function")
    ELSE IF validQuestions(content.questions) = <<>>
    THEN /\ pc' = "done"
         /\ httpResponse' = HttpError(500, "No valid questions generated",
                                      "All generated questions failed validation")
    ELSE /\ pc' = "insert"
         /\ UNCHANGED httpResponse

\* a slip that leaves the loop running after an adapter has returned
AttemptSucceedsWithoutBreak(content) ==
    /\ pc = "awaiting"
    /\ calls' = MarkLast(calls, "succeeded", "")
    /\ usedProvider' = providers[attempt]
    /\ generatedContent' = content
    /\ IF attempt < Len(providers)
       THEN pc' = "loop" /\ attempt' = attempt + 1 /\ UNCHANGED httpResponse
       ELSE attempt' = attempt /\ AfterLoop(providers[attempt], content)
    /\ UNCHANGED <<handler, aiProviderEnv, freq, providers, lastError>>
    /\ UNCHANGED <<ivars, avars, dvars, ovars>>

\* the awaited adapter returns: usedProvider is set and the loop is left
AttemptSucceeds(content) ==
    /\ pc = "awaiting"
    /\ calls' = MarkLast(calls, "succeeded", "")
    /\ usedProvider' = providers[attempt]
    /\ generatedContent' = content
    /\ AfterLoop(providers[attempt], content)
    /\ UNCHANGED <<handler, aiProviderEnv, freq, providers, attempt, lastError>>
    /\ UNCHANGED <<ivars, avars, dvars, ovars>>

AllFailedResponse(provider, message) ==
    [status |-> 500,
     body |-> [NoHttpBody EXCEPT
                 !.error = "All AI providers failed",
                 !.details = "All providers failed. Last error: " \o message,
                 !.attempted_providers = providers,
                 !.provider_errors = IF handler = "generate-questions"
                                     THEN {<<provider, message>>} ELSE {}]]

\* a slip that keeps the first error instead of the last
AttemptFailsKeepsFirstError(message) ==
    /\ pc = "awaiting"
    /\ calls' = MarkLast(calls, "failed", message)
    /\ lastError' = IF lastError = "" THEN message ELSE lastError
    /\ IF providers[attempt] = providers[Len(providers)]
       THEN /\ pc' = "done"
            /\ httpResponse' = AllFailedResponse(providers[attempt], lastError')
            /\ UNCHANGED attempt
       ELSE /\ pc' = "loop"
            /\ attempt' = attempt + 1
            /\ UNCHANGED httpResponse
    /\ UNCHANGED <<handler, aiProviderEnv, freq, providers, usedProvider,
                   generatedContent>>
    /\ UNCHANGED <<ivars, avars, dvars, ovars>>

\* a slip that starts over with the first provider when the second one fails
AttemptFailsStartsOver(message) ==
    /\ pc = "awaiting"
    /\ lastError' = message
    /\ IF providers[attempt] = providers[Len(providers)]
       THEN /\ pc' = "done"
            /\ calls' = MarkLast(calls, "failed", message)
            /\ httpResponse' = AllFailedResponse(providers[attempt], lastError')
            /\ UNCHANGED attempt
       ELSE IF attempt = 1
       THEN /\ pc' = "loop"
            /\ calls' = MarkLast(calls, "failed", message)
            /\ attempt' = attempt + 1
            /\ UNCHANGED httpResponse
       ELSE /\ pc' = "loop"
            /\ calls' = <<>>
            /\ attempt' = 1
            /\ UNCHANGED httpResponse
    /\ UNCHANGED <<handler, aiProviderEnv, freq, providers, usedProvider,
                   generatedContent>>
    /\ UNCHANGED <<ivars, avars, dvars, ovars>>

\* a slip that gives every failing provider a second try
AttemptFailsRetriesOnce(message) ==
    /\ pc = "awaiting"
    /\ calls' = MarkLast(calls, "failed", message)
    /\ lastError' = message
    /\ IF Len(calls) < 2 * attempt
       THEN /\ pc' = "loop"
            /\ UNCHANGED <<attempt, httpResponse>>
       ELSE IF providers[attempt] = providers[Len(providers)]
       THEN /\ pc' = "done"
            /\ httpResponse' = AllFailedResponse(providers[attempt], lastError')
            /\ UNCHANGED attempt
       ELSE /\ pc' = "loop"
            /\ attempt' = attempt + 1
            /\ UNCHANGED httpResponse
    /\ UNCHANGED <<handler, aiProviderEnv, freq, providers, usedProvider,
                   generatedContent>>
    /\ UNCHANGED <<ivars, avars, dvars, ovars>>

\* the awaited adapter throws: the catch branch of the loop
AttemptFails(message) ==
    /\ pc = "awaiting"
    /\ calls' = MarkLast(calls, "failed", message)
    /\ lastError' = message
    /\ IF providers[attempt] = providers[Len(providers)]
       THEN /\ pc' = "done"
            /\ httpResponse' = AllFailedResponse(providers[attempt], lastError')
            /\ UNCHANGED attempt
       ELSE /\ pc' = "loop"
            /\ attempt' = attempt + 1
            /\ UNCHANGED httpResponse
    /\ UNCHANGED <<handler, aiProviderEnv, freq, providers, usedProvider,
                   generatedContent>>
    /\ UNCHANGED <<ivars, avars, dvars, ovars>>

\* the questions table takes a row: options is an array of 2 to 6 texts and
\* correct_answer is an integer with 0 <= correct_answer < array_length
RowAccepted(q) ==
    /\ q.is_array
    /\ Len(q.options) >= 2
    /\ Len(q.options) <= 6
    /\ q.correct_answer.d = 1
    /\ q.correct_answer.n >= 0
    /\ q.correct_answer.n < Len(q.options)

\* the row as the table stores it
StoredRow(q) ==
    [question_text |-> q.question_text, options |-> q.options,
     correct_answer |-> q.correct_answer.n]

\* the insert into the questions table returns, with or without an error;
\* it is one statement, which stores every row or none
InsertReturns(ok) ==
    /\ pc = "insert"
    /\ LET questionsToInsert == validQuestions(generatedContent.questions)
           insertedQuestions ==
              [i \in 1..Len(questionsToInsert) |-> StoredRow(questionsToInsert[i])]
       IN  /\ ok => \A i \in 1..Len(questionsToInsert) :
                       RowAccepted(questionsToInsert[i])
           /\ questionsTable' = IF ok THEN insertedQuestions ELSE questionsTable
           /\ httpResponse' =
                 IF ok
                 THEN SuccessResponse(usedProvider, insertedQuestions,
                                      Len(questionsToInsert))
                 ELSE HttpError(500, "Failed to save questions to database",
                                "insert error")
    /\ pc' = "done"
    /\ UNCHANGED <<handler, aiProviderEnv, freq, providers, attempt, calls,
                   usedProvider, lastError, generatedContent>>
    /\ UNCHANGED <<ivars, avars, ovars>>

\* the adapter of providers[attempt] returns what it generated
AdapterReturns ==
    /\ pc = "awaiting"
    /\ \E outcome \in AdapterOutcomes(handler, providers[attempt], freq) :
          outcome.ok /\ AttemptSucceeds(outcome.content)

\* the adapter of providers[attempt] throws
AdapterThrows ==
    /\ pc = "awaiting"
    /\ \E outcome \in AdapterOutcomes(handler, providers[attempt], freq) :
          ~outcome.ok /\ AttemptFails(outcome.error)

InitFallback ==
    /\ pc = "idle"
    /\ aiProviderEnv \in EnvValues
    /\ FallbackIdle
    /\ IntegrityUnused
    /\ AdapterUnused
    /\ RestUnused

NextFallback ==
    \/ \E h \in Handlers : \E body \in FallbackBodies(h) : FallbackReceives(h, body)
    \/ \E h \in Handlers : FallbackMalformedBody(h)
    \/ StartAttempt
    \/ \E apiResponse \in HandlerResponses : \E draws \in HandlerDraws :
          PythonAnywhereAnswers(apiResponse, draws)
    \/ AdapterReturns
    \/ AdapterThrows
    \/ \E ok \in BOOLEAN : InsertReturns(ok)

SpecFallback == InitFallback /\ [][NextFallback]_vars

\* the handler's own code runs up to its next await, the database insert
\* eventually returns, and every provider call eventually returns: an
\* awaited adapter does not stay pending for ever
FairFallback ==
    /\ WF_vars(StartAttempt)
    /\ WF_vars(\E ok \in BOOLEAN : InsertReturns(ok))
    /\ (pc = "awaiting") ~> (pc # "awaiting")

SpecFallbackLive == SpecFallback /\ FairFallback

\* question generation as a whole: one iteration of the adapter on any API
\* answer, or a request to one of the endpoints
InitGeneration == InitAdapter \/ InitFallback
NextGeneration == NextAdapter \/ NextFallback
SpecGeneration == InitGeneration /\ [][NextGeneration]_vars

----------------------------------------------------------------------------
(* The QuizGame component (src/unnamed/part_009).  An event handler sees    *)
(* the state of the render it was created in; the 2-second callback of      *)
(* handleAnswerSubmit keeps the values of the render in which the answer    *)
(* was submitted.                                                           *)

MaxQuiz == 5            \* questions of a quiz

\* the questions fetched: the correct option alternates between 0 and 1
QuizOf(n) == [i \in 1..n |-> [correct_answer |-> i % 2]]

currentQuestion == game.questions[game.currentQuestionIndex + 1]

Playing == pc = "quiz" /\ game.gameStarted /\ ~game.quizCompleted

\* startGame
StartGame ==
    /\ pc = "quiz"
    /\ ~game.gameStarted
    /\ game' = [game EXCEPT !.gameStarted = TRUE, !.timeLeft = SecondsPerQuestion]
    /\ UNCHANGED <<pc, resultTimer, createdSession, profile, correctAnswers>>
    /\ UNCHANGED <<ivars, avars, fvars, dvars, hvars, tvars>>

\* the timer effect: one second passes
Tick ==
    /\ Playing
    /\ game.timeLeft > 0
    /\ ~game.showResult
    /\ game' = [game EXCEPT !.timeLeft = game.timeLeft - 1]
    /\ UNCHANGED <<pc, resultTimer, createdSession, profile, correctAnswers>>
    /\ UNCHANGED <<ivars, avars, fvars, dvars, hvars, tvars>>

\* a click on an option
SelectAnswer(index) ==
    /\ Playing
    /\ ~game.showResult
    /\ game' = [game EXCEPT !.selectedAnswer = Num(index)]
    /\ UNCHANGED <<pc, resultTimer, createdSession, profile, correctAnswers>>
    /\ UNCHANGED <<ivars, avars, fvars, dvars, hvars, tvars>>

\* handleAnswerSubmit, run in the current render
handleAnswerSubmit ==
    LET isCorrect == game.selectedAnswer = Num(currentQuestion.correct_answer)
    IN  /\ game' = [game EXCEPT
                      !.showResult = TRUE,
                      !.score = IF isCorrect THEN game.score + 1 ELSE game.score,
                      !.streak = IF isCorrect THEN game.streak + 1 ELSE 0]
        /\ resultTimer' = [pending |-> TRUE,
                           currentQuestionIndex |-> game.currentQuestionIndex,
                           score |-> game.score,
                           streak |-> game.streak,
                           timeLeft |-> game.timeLeft]
        /\ correctAnswers' = IF isCorrect THEN correctAnswers + 1 ELSE correctAnswers
        /\ UNCHANGED <<pc, createdSession, profile>>
        /\ UNCHANGED <<ivars, avars, fvars, dvars, hvars, tvars>>

\* a click on Submit Answer
SubmitClick ==
    /\ Playing
    /\ ~game.showResult
    /\ game.selectedAnswer # NoValue
    /\ handleAnswerSubmit

\* the timer effect at 0 seconds
TimerExpires ==
    /\ Playing
    /\ game.timeLeft = 0
    /\ ~game.showResult
    /\ handleAnswerSubmit

\* a slip that counts the seconds of the last question only
timeTakenLastQuestionOnly(length, timeLeft) == SecondsPerQuestion - timeLeft

\* time_taken as completeQuiz computes it
timeTaken(length, timeLeft) == (length * SecondsPerQuestion) - timeLeft

\* completeQuiz, with the score, streak and timeLeft its closure holds
completeQuiz(score, streak, timeLeft) ==
    /\ game' = [game EXCEPT !.quizCompleted = TRUE]
    /\ IF game.user # NoValue
       THEN /\ createdSession' =
                 [user_id |-> game.user,
                  score |-> score,
                  total_questions |-> Len(game.questions),
                  streak |-> streak,
                  time_taken |-> timeTaken(Len(game.questions), timeLeft)]
            /\ pc' = "creating"
       ELSE /\ pc' = "finished"
            /\ UNCHANGED createdSession

\* the 2-second callback of handleAnswerSubmit
ResultTimerFires ==
    /\ pc = "quiz"
    /\ resultTimer.pending
    /\ resultTimer' = NoTimer
    /\ IF resultTimer.currentQuestionIndex < Len(game.questions) - 1
       THEN /\ game' = [game EXCEPT
                          !.currentQuestionIndex = resultTimer.currentQuestionIndex + 1,
                          !.selectedAnswer = NoValue,
                          !.showResult = FALSE,
                          !.timeLeft = SecondsPerQuestion]
            /\ UNCHANGED <<pc, createdSession>>
       ELSE completeQuiz(resultTimer.score, resultTimer.streak, resultTimer.timeLeft)
    /\ UNCHANGED <<profile, correctAnswers>>
    /\ UNCHANGED <<ivars, avars, fvars, dvars, hvars, tvars>>

\* quizAPI.createSession returns; with a session row, detectCheating is
\* called and not awaited
CreateSessionReturns(ok) ==
    /\ pc = "creating"
    /\ req' = IF ok
              THEN [session_id |-> Str("s1"),
                    user_id |-> createdSession.user_id,
                    score |-> Num(createdSession.score),
                    total_questions |-> Num(createdSession.total_questions),
                    time_taken |-> Num(createdSession.time_taken),
                    streak |-> Num(createdSession.streak)]
              ELSE req
    /\ pc' = "profile"
    /\ UNCHANGED <<anomalyResult, llmResult, response, sessionFlag>>
    /\ UNCHANGED <<avars, fvars, dvars, hvars, qvars, tvars>>

\* the profile completeQuiz writes
UpdatedProfile(old, score, streak) ==
    [total_score |-> old.total_score + score,
     best_streak |-> IF old.best_streak >= streak THEN old.best_streak ELSE streak,
     games_played |-> old.games_played + 1]

\* userAPI.getProfile returns, with the profile or without; updateProfile
ProfileReturns(found) ==
    /\ pc = "profile"
    /\ profile' = IF found
                  THEN UpdatedProfile(profile, createdSession.score,
                                      createdSession.streak)
                  ELSE profile
    /\ pc' = "finished"
    /\ UNCHANGED <<game, resultTimer, createdSession, correctAnswers>>
    /\ UNCHANGED <<ivars, avars, fvars, dvars, hvars, tvars>>

\* the integrity endpoint scores the request of detectCheating
DetectionAnswers ==
    /\ pc \in {"profile", "finished"}
    /\ req # NoRequest
    /\ anomalyResult = NoResult
    /\ ~InputInvalid(req)
    /\ anomalyResult' = performAnomalyDetection(req)
    /\ UNCHANGED <<pc, req, llmResult, response, sessionFlag>>
    /\ UNCHANGED <<avars, fvars, dvars, hvars, qvars, tvars>>

InitGame ==
    /\ pc = "quiz"
    /\ \E n \in 1..MaxQuiz : \E user \in {Str("u1"), NoValue} :
          game = [NoGame EXCEPT !.questions = QuizOf(n), !.user = user]
    /\ resultTimer = NoTimer
    /\ createdSession = NoValue
    /\ profile = NoProfile
    /\ correctAnswers = 0
    /\ IntegrityUnused
    /\ AdapterUnused
    /\ FallbackUnused
    /\ NotEvaluated
    /\ TablesUnused

NextGame ==
    \/ StartGame
    \/ Tick
    \/ \E index \in 0..1 : SelectAnswer(index)
    \/ SubmitClick
    \/ TimerExpires
    \/ ResultTimerFires
    \/ \E ok \in BOOLEAN : CreateSessionReturns(ok)
    \/ \E found \in BOOLEAN : ProfileReturns(found)
    \/ DetectionAnswers

SpecGame == InitGame /\ [][NextGame]_vars

----------------------------------------------------------------------------
(* Claims about the scorer.  The rules are restated on the integers of the *)
(* request: with total_questions > 0, time_taken / total_questions < k is  *)
(* time_taken < k * total_questions.                                       *)

Score == req.score.v
Total == req.total_questions.v
TimeTaken == req.time_taken.v
Streak == req.streak.v

RuleMatches(k) ==
    CASE k = 1 -> TimeTaken < 1 * Total
      [] k = 2 -> TimeTaken < 2 * Total
      [] k = 3 -> Score = Total /\ TimeTaken < 15
      [] k = 4 -> 100 * Score >= 80 * Total /\ TimeTaken < 3 * Total
      [] k = 5 -> TimeTaken < 5 * Total /\ 100 * Score > 50 * Total
      [] OTHER -> TRUE

\* the first rule of the ordered list that matches; 6 is "otherwise"
FirstMatch == CHOOSE k \in 1..6 : RuleMatches(k) /\ \A j \in 1..(k - 1) : ~RuleMatches(j)

RuleConfidence(k) ==
    CASE k = 1 -> 95 [] k = 2 -> 85 [] k = 3 -> 90 [] k = 4 -> 75 [] k = 5 -> 70
      [] OTHER -> 0

RuleSpeedLabel(k) ==
    CASE k = 1 -> "Impossible - Less than 1 second per question"
      [] k = 2 -> "Extremely Fast - Less than 2 seconds per question"
      [] k = 3 -> "Suspicious - Perfect score too fast"
      [] k = 4 -> "Suspicious - High score with fast completion"
      [] k = 5 -> "Below Expected Minimum"
      [] OTHER -> "Normal"

RuleReason(k) ==
    CASE k = 1 -> "Impossible completion speed detected"
      [] k = 2 -> "Extremely fast completion speed"
      [] k = 3 -> "Perfect score achieved in impossibly short time"
      [] k = 4 -> "High accuracy with suspiciously fast completion"
      [] k = 5 -> "Completion time significantly below expected minimum"
      [] OTHER -> ""

PerfectStreakFast == Streak = Total /\ TimeTaken < 3 * Total

C4_AsStated ==
    (pc = "scored" /\ Score = Total /\ TimeTaken >= Total /\ TimeTaken < 15) =>
        /\ anomalyResult.suspicion_reason = RuleReason(3)
        /\ anomalyResult.confidence_score = 90

\* C4 amended: a perfect-score attempt with time_taken < 15 gets rule 3's
\* reason and confidence 0.90 when the time per question is >= 2.0; with a
\* time per question in [1.0, 2.0), as for score=10, total_questions=10,
\* time_taken=10, rule 2 decides ('Extremely fast completion speed', 0.85).
C4_PerfectScoreVerdict ==
    (pc = "scored" /\ Score = Total /\ TimeTaken >= Total /\ TimeTaken < 15) =>
        IF TimeTaken >= 2 * Total
        THEN /\ anomalyResult.suspicion_reason = RuleReason(3)
             /\ anomalyResult.confidence_score = 90
        ELSE /\ anomalyResult.suspicion_reason = RuleReason(2)
             /\ anomalyResult.confidence_score = 85

\* a perfect score at exactly 2 seconds per question, under 15 seconds in all
C4_Witness ==
    /\ pc = "scored"
    /\ Score = Total /\ TimeTaken = 2 * Total /\ TimeTaken < 15
    /\ anomalyResult.confidence_score = 90

\* C9: whenever a speed rule fires and the perfect-streak condition holds
\* too, reason and confidence are the speed rule's, never the perfect-streak
\* ones, and pattern_analysis still carries the perfect-streak label.
C9_SpeedRuleTakesPrecedence ==
    (pc = "scored" /\ FirstMatch <= 5 /\ PerfectStreakFast) =>
        /\ anomalyResult.is_suspicious
        /\ anomalyResult.suspicion_reason = RuleReason(FirstMatch)
        /\ anomalyResult.confidence_score = RuleConfidence(FirstMatch)
        /\ anomalyResult.suspicion_reason # PerfectStreakReason
        /\ anomalyResult.confidence_score # 80
        /\ anomalyResult.analysis_details.pattern_analysis = PerfectStreakLabel

\* the example: score=5, total_questions=10, time_taken=4, streak=10
C9_Witness ==
    /\ pc = "scored"
    /\ Score = 5 /\ Total = 10 /\ TimeTaken = 4 /\ Streak = 10
    /\ anomalyResult.suspicion_reason = "Impossible completion speed detected"
    /\ anomalyResult.confidence_score = 95

\* C10: for every input on which no speed rule fires while streak =
\* total_questions and the time per question is < 3, the verdict is
\* is_suspicious with confidence 0.80 and the perfect-streak reason.
C10_PerfectStreakFlagsAlone ==
    (pc = "scored" /\ FirstMatch = 6 /\ PerfectStreakFast) =>
        /\ anomalyResult.is_suspicious
        /\ anomalyResult.confidence_score = 80
        /\ anomalyResult.suspicion_reason = PerfectStreakReason

\* such an input exists: no speed rule fires and the streak rule flags
C10_Witness ==
    /\ pc = "scored"
    /\ Score >= 0 /\ Total > 0 /\ TimeTaken >= 0 /\ Streak >= 0
    /\ \A k \in 1..5 : ~RuleMatches(k)
    /\ PerfectStreakFast
    /\ anomalyResult.is_suspicious /\ anomalyResult.confidence_score = 80

\* C11: the scorer's is_suspicious is true if and only if one of the five
\* speed rules or the perfect-streak-fast rule fires; when none fires, as for
\* score=3, total_questions=10, time_taken=100, streak=3, the verdict is not
\* suspicious, with confidence 0, no reason and speed label 'Normal'.
C11_SuspiciousIffSomeRuleFires ==
    pc = "scored" =>
        /\ anomalyResult.is_suspicious <=>
              ((\E k \in 1..5 : RuleMatches(k)) \/ PerfectStreakFast)
        /\ ~((\E k \in 1..5 : RuleMatches(k)) \/ PerfectStreakFast) =>
              /\ ~anomalyResult.is_suspicious
              /\ anomalyResult.confidence_score = 0
              /\ anomalyResult.suspicion_reason = ""
              /\ anomalyResult.analysis_details.speed_analysis = "Normal"

\* the example: score=3, total_questions=10, time_taken=100, streak=3
C11_Witness ==
    /\ pc = "scored"
    /\ Score = 3 /\ Total = 10 /\ TimeTaken = 100 /\ Streak = 3
    /\ ~anomalyResult.is_suspicious
    /\ anomalyResult.confidence_score = 0
    /\ anomalyResult.analysis_details.speed_analysis = "Normal"
    /\ anomalyResult.analysis_details.time_per_question = Div(100, 10)

\* C12: for every input with streak = total_questions and a time per
\* question of exactly 3.0 the perfect-streak branch is not taken:
\* pattern_analysis is 'High streak percentage' and is_suspicious, the reason
\* and the confidence are exactly what the speed rules set.
C12_ThreeSecondsIsNotFast ==
    (pc = "scored" /\ Streak = Total /\ TimeTaken = 3 * Total) =>
        /\ anomalyResult.analysis_details.pattern_analysis = "High streak percentage"
        /\ anomalyResult.is_suspicious <=> FirstMatch <= 5
        /\ anomalyResult.suspicion_reason = RuleReason(FirstMatch)
        /\ anomalyResult.confidence_score = RuleConfidence(FirstMatch)
        /\ anomalyResult.suspicion_reason # PerfectStreakReason

\* a full streak at exactly 3 seconds per question on which no speed rule
\* fires: the attempt is labelled and not flagged
C12_Witness ==
    /\ pc = "scored"
    /\ Streak = Total /\ TimeTaken = 3 * Total
    /\ FirstMatch = 6
    /\ ~anomalyResult.is_suspicious
    /\ anomalyResult.analysis_details.pattern_analysis = "High streak percentage"

\* the request is one a played quiz can produce
ConsistentInput ==
    /\ 0 <= Streak /\ Streak <= Score /\ Score <= Total
    /\ Total > 0 /\ TimeTaken >= 0

\* C26: on a consistent input (0 <= streak <= score <= total_questions,
\* total_questions > 0, time_taken >= 0) the perfect-streak rule never
\* decides the verdict: when streak = total_questions below 3 seconds per
\* question a speed rule has fired, and neither confidence 0.80 nor the
\* perfect-streak reason is returned.
C26_PerfectStreakNeverDecides ==
    (pc = "scored" /\ ConsistentInput) =>
        /\ anomalyResult.confidence_score # 80
        /\ anomalyResult.suspicion_reason # PerfectStreakReason
        /\ (Streak = Total /\ TimeTaken < 3 * Total) =>
              /\ \E k \in 1..5 : RuleMatches(k)
              /\ anomalyResult.is_suspicious
              /\ anomalyResult.analysis_details.speed_analysis # "Normal"

\* a consistent full streak between 2 and 3 seconds per question, after 15
\* seconds: the high-score rule has the verdict, the pattern only the label
C26_Witness ==
    /\ pc = "scored"
    /\ ConsistentInput
    /\ Streak = Total /\ TimeTaken < 3 * Total
    /\ TimeTaken >= 15
    /\ FirstMatch = 4
    /\ anomalyResult.confidence_score = 75
    /\ anomalyResult.analysis_details.pattern_analysis = PerfectStreakLabel

----------------------------------------------------------------------------
(* Claims about the integrity endpoint *)

\* C8: a request with total_questions = 0 is rejected with HTTP 400 and the
\* scorer is never run on it.
C8_ZeroTotalRejected ==
    (pc # "idle" /\ req.total_questions = Num(0)) =>
        /\ anomalyResult = NoResult
        /\ pc = "done" => response.status = 400

\* a field of the request is absent from the parsed body
FieldMissing(request) ==
    \E field \in {"session_id", "user_id", "score", "total_questions",
                  "time_taken", "streak"} : request[field] = NoValue

\* C20: a request whose body lacks any of session_id, user_id, score,
\* total_questions, time_taken or streak is answered with HTTP 400, and
\* neither the scorer nor the LLM analysis nor the session update runs on it.
C20_IncompleteRequestRejected ==
    (pc # "idle" /\ response.status # 500 /\ FieldMissing(req)) =>
        /\ pc = "done"
        /\ response.status = 400
        /\ anomalyResult = NoResult
        /\ llmResult = LLMSkipped
        /\ ~sessionFlag.is_suspicious

\* C21: the confidence_score of every successful response is a number
\* between 0 and 1 (0 to 100 hundredths), whatever the LLM analysis returned.
C21_ConfidenceWithinUnitInterval ==
    (pc = "done" /\ response.status = 200) =>
        /\ response.body.confidence_score.t = "number"
        /\ response.body.confidence_score.v \in 0..100

\* C22: the quiz_sessions update is issued only when the final verdict is
\* suspicious, and whether it succeeds (the flag is stored) or fails (the
\* flag is not stored) the response is HTTP 200 with the verdict as its body.
C22_FailedUpdateIsNotFatal ==
    LET final == finalResult(anomalyResult, llmResult)
    IN  /\ pc = "update" => final.is_suspicious
        /\ sessionFlag.is_suspicious =>
              /\ final.is_suspicious
              /\ sessionFlag.suspicion_reason = final.suspicion_reason
        /\ (pc = "done" /\ req # NoRequest /\ ~InputInvalid(req)) =>
              /\ response.status = 200
              /\ response.error = ""
              /\ response.body = final

\* a suspicious verdict whose update failed: the flag is not stored and the
\* response is 200 with the verdict
C22_Witness ==
    /\ pc = "done"
    /\ finalResult(anomalyResult, llmResult).is_suspicious
    /\ ~sessionFlag.is_suspicious
    /\ response.status = 200
    /\ response.body.is_suspicious

\* C29: when the LLM analysis is skipped or fails, the response is a 200
\* whose is_suspicious and confidence_score are the scorer's; and when the
\* scorer flags the attempt, the response says suspicious and gives the
\* scorer's reason, whatever the LLM returned.
C29_ScorerVerdictStands ==
    (pc = "done" /\ req # NoRequest /\ ~InputInvalid(req)) =>
        /\ llmResult = LLMSkipped =>
              /\ response.status = 200
              /\ response.body.is_suspicious = anomalyResult.is_suspicious
              /\ response.body.confidence_score = Num(anomalyResult.confidence_score)
        /\ anomalyResult.is_suspicious =>
              /\ response.status = 200
              /\ response.body.is_suspicious
              /\ response.body.suspicion_reason = Str(anomalyResult.suspicion_reason)

\* the scorer flagged the attempt and the LLM flagged it too, with a reason
\* of its own: the response carries the scorer's reason
C29_Witness ==
    /\ pc = "done"
    /\ anomalyResult.is_suspicious
    /\ llmResult.is_suspicious
    /\ llmResult.reason = Str("llm reason")
    /\ response.status = 200
    /\ response.body.suspicion_reason = Str(anomalyResult.suspicion_reason)

----------------------------------------------------------------------------
(* Claims about the PythonAnywhere question adapter *)

\* C1: when CorrectOption is the label "OptionN" of a present non-blank
\* option, the emitted question's correct_answer points, after every shuffle,
\* to an option whose text is the trimmed text stored under OptionN.
C1_CorrectTextSurvives ==
    (pc = "adapter_done" /\ paOutcome.ok) =>
        \A N \in 1..5 :
            (/\ paResponse.data.CorrectOption = optionKeys[N]
             /\ Usable(paResponse.data.Options[optionKeys[N]]))
            => paOutcome.question.options[paOutcome.question.correct_answer + 1]
                 = Trim(paResponse.data.Options[optionKeys[N]])

\* the option list of the answer in paResponse after normalization to four
\* options and before the shuffle
PreShuffleOptions ==
    LET extractedOptions == ExtractFrom(paResponse.data.Options, 1)
        correctAnswerIndex == ParseCorrectOption(paResponse.data.CorrectOption) - 1
    IN  SubSeq(PadAlternatives(Deduplicate(
                  PadGeneric(KeepFour(extractedOptions, correctAnswerIndex)), <<>>)),
               1, 4)

UsableCount == Len(ExtractFrom(paResponse.data.Options, 1))

\* how often x occurs in a list; two lists of one length are permutations of
\* each other when every element of the first occurs equally often in both
Occurrences(array, x) == Cardinality({i \in 1..Len(array) : array[i] = x})

\* C17: every question the adapter emits has exactly 4 pairwise distinct
\* options, a correct_answer in 0..3 and an option list that is a
\* permutation of the normalized list before the shuffle, whatever the 2 to
\* 5 usable options are (duplicates and padding labels included).
C17_FourDistinctOptions ==
    (pc = "adapter_done" /\ paOutcome.ok) =>
        LET options == paOutcome.question.options
        IN  /\ UsableCount \in 2..5
            /\ Len(options) = 4
            /\ \A i \in 1..4 : \A j \in 1..4 : i # j => options[i] # options[j]
            /\ paOutcome.question.correct_answer \in 0..3
            /\ Len(PreShuffleOptions) = 4
            /\ \A i \in 1..4 : Occurrences(options, options[i])
                                  = Occurrences(PreShuffleOptions, options[i])

\* three usable options of which two are the same text and one reads
\* 'Alternative 3': the adapter pads with 'Option 4' and 'Alternative 3_1'
C17_Witness ==
    /\ pc = "adapter_done"
    /\ paOutcome.ok
    /\ UsableCount = 3
    /\ Len(Deduplicate(ExtractFrom(paResponse.data.Options, 1), <<>>)) = 2
    /\ Includes(paOutcome.question.options, "Alternative 3")
    /\ Includes(paOutcome.question.options, "Alternative 3_1")
    /\ Includes(paOutcome.question.options, "Option 4")
    /\ paOutcome.question.options # PreShuffleOptions

----------------------------------------------------------------------------
(* Claims about the provider fallback *)

SuccessFromProvider ==
    /\ pc = "done"
    /\ httpResponse.status = 200
    /\ httpResponse.body.provider_used # "none"

\* C2: in a success response provider_used is the first provider of the
\* attempted order whose adapter succeeded, every adapter before it was
\* invoked once and failed, and no adapter is invoked after a success; when
\* the first two fail and the third succeeds, provider_used is the third,
\* fallback_used is true and exactly three invocations occurred.
C2_FirstSuccessfulProviderUsed ==
    /\ \A i \in 1..Len(calls) :
          /\ calls[i].provider = providers[i]
          /\ i < Len(calls) => calls[i].outcome = "failed"
    /\ SuccessFromProvider =>
          /\ Len(calls) >= 1
          /\ calls[Len(calls)].outcome = "succeeded"
          /\ httpResponse.body.provider_used = providers[Len(calls)]
          /\ Len(calls) = 3 => httpResponse.body.fallback_used

\* two failures, then the third provider answers
C2_Witness ==
    /\ SuccessFromProvider
    /\ Len(calls) = 3
    /\ calls[1].outcome = "failed" /\ calls[2].outcome = "failed"
    /\ calls[3].outcome = "succeeded"
    /\ httpResponse.body.provider_used = providers[3]
    /\ httpResponse.body.fallback_used

\* C5: in every success response, fallback_used is true if and only if
\* provider_used differs from the first provider of the attempted order.
C5_FallbackUsedIffNotFirst ==
    SuccessFromProvider =>
        (httpResponse.body.fallback_used <=>
            httpResponse.body.provider_used # providers[1])

AllAdaptersFailed ==
    /\ Len(providers) > 0
    /\ Len(calls) = Len(providers)
    /\ \A i \in 1..Len(calls) : calls[i].outcome = "failed"

\* C6: when every adapter of the order has failed the response is HTTP 500,
\* its details carry the last failure's message and attempted_providers lists
\* every candidate once, in the order attempted; it is no success body.
C6_AllProvidersFailed ==
    AllAdaptersFailed =>
        /\ pc = "done"
        /\ httpResponse.status = 500
        /\ httpResponse.body.error = "All AI providers failed"
        /\ httpResponse.body.details =
             "All providers failed. Last error: " \o calls[Len(calls)].message
        /\ httpResponse.body.attempted_providers =
             [i \in 1..Len(calls) |-> calls[i].provider]
        /\ Len(httpResponse.body.attempted_providers) = 3
        /\ {httpResponse.body.attempted_providers[i] : i \in 1..3}
             = {allProviders[i] : i \in 1..3}
        /\ ~httpResponse.body.success
        /\ httpResponse.body.result = NoValue

\* all three adapters have thrown, each with its own message
C6_Witness ==
    /\ AllAdaptersFailed
    /\ httpResponse.status = 500
    /\ calls[1].message # calls[3].message
    /\ httpResponse.body.attempted_providers = providers

\* C7: in generate-questions a provider's content that cannot be parsed as
\* the questions JSON counts as a failed attempt, so the request ends with
\* an error only once no untried provider remains.
C7_UnparseableContentAdvances ==
    (/\ handler = "generate-questions"
     /\ pc = "done"
     /\ httpResponse.status = 500
     /\ generatedContent.kind = "not_json")
    => Len(calls) = Len(providers)


\* 0-based position of a provider in the fixed fallback order
FallbackRank(provider) == IndexOf(allProviders, provider)

C14_SequentialSingleAttempts ==
    /\ \A i \in 1..Len(calls) : \A j \in 1..Len(calls) :
          i # j => calls[i].provider # calls[j].provider
    /\ \A i \in 1..(Len(calls) - 1) : calls[i].outcome = "failed"
    /\ Cardinality({i \in 1..Len(calls) : calls[i].outcome = "pending"}) <= 1
    /\ Len(calls) <= 3
    /\ pc = "awaiting" <=>
          (Len(calls) > 0 /\ calls[Len(calls)].outcome = "pending")

\* the third adapter is awaited after the first two have each failed once
C14_Witness ==
    /\ pc = "awaiting"
    /\ Len(calls) = 3
    /\ calls[1].outcome = "failed" /\ calls[2].outcome = "failed"
    /\ calls[3].outcome = "pending"
    /\ {calls[i].provider : i \in 1..3} = {allProviders[i] : i \in 1..3}


\* C15: when all providers fail in generate-questions, provider_errors of
\* the HTTP 500 body has an entry, with its error message, for every provider
\* that was attempted.
C15_EveryProviderErrorReported ==
    (handler = "generate-questions" /\ AllAdaptersFailed /\ pc = "done") =>
        httpResponse.body.provider_errors =
            {<<calls[i].provider, calls[i].message>> : i \in 1..Len(calls)}


\* the terminal states of the fallback state machine
LoopSuccess == usedProvider # ""
LoopAllFailed == pc = "done" /\ httpResponse.body.error = "All AI providers failed"

\* C16: when every provider call eventually returns, a request that enters
\* the provider loop eventually reaches Success or AllFailed, never both,
\* after at most three attempts, and AllFailed only once all three have
\* failed; while a provider call has not returned, no other candidate is
\* tried.
C16_FallbackTerminates ==
    /\ (pc = "loop") ~> (LoopSuccess \/ LoopAllFailed)
    /\ [](~(LoopSuccess /\ LoopAllFailed))
    /\ [](Len(calls) <= 3)
    /\ [](LoopAllFailed => AllAdaptersFailed)
    /\ [](LoopSuccess => (Len(calls) > 0 /\ calls[Len(calls)].outcome = "succeeded"))
    /\ [][pc = "awaiting" => Len(calls') = Len(calls)]_vars
    /\ [][(LoopSuccess \/ LoopAllFailed) => (calls' = calls /\ usedProvider' = usedProvider)]_vars

\* the tutor's three providers have failed one after the other
C16_Witness ==
    /\ handler = "ai-tutor-chat"
    /\ LoopAllFailed
    /\ ~LoopSuccess
    /\ Len(calls) = 3
    /\ \A i \in 1..3 : calls[i].outcome = "failed"


PythonAnywhereCalls == {i \in 1..Len(calls) : calls[i].provider = "pythonanywhere"}

\* an API answer the adapter must refuse: a JSON parse stage fails, fewer
\* than 2 options are usable, or CorrectOption is not the label OptionN of
\* one of the N usable options
Defective(apiResponse) ==
    \/ apiResponse.kind \in {"bad_json", "bad_ai_json"}
    \/ /\ apiResponse.kind = "data"
       /\ apiResponse.data.Options # NoValue
       /\ LET usable == Len(ExtractFrom(apiResponse.data.Options, 1))
          IN  \/ usable < 2
              \/ ~\E n \in 1..usable :
                    apiResponse.data.CorrectOption = "Option" \o ToString(n)

\* C18: when the API answer of an iteration has fewer than 2 usable options,
\* an unparseable or out-of-range CorrectOption label, or fails a JSON parse
\* stage, the adapter raises an error and emits no question: the request gets
\* none of the questions built in earlier iterations and the provider
\* attempt counts as failed; a question list is handed over only when every
\* iteration had a sound answer.
C18_NoDefaultedAnswer ==
    /\ (pc = "adapter_done" /\ Defective(paResponse)) =>
          /\ ~paOutcome.ok
          /\ paOutcome.error # ""
          /\ paQuestions = <<>>
    /\ (handler = "generate-questions" /\ paResponse.kind # "none"
          /\ Defective(paResponse)) =>
          /\ ~paOutcome.ok
          /\ paOutcome.error # ""
          /\ Len(paQuestions) < freq.count.v
          /\ usedProvider # "pythonanywhere"
          /\ httpResponse.body.provider_used # "pythonanywhere"
          /\ \A i \in PythonAnywhereCalls :
                /\ calls[i].outcome # "succeeded"
                /\ (pc # "awaiting" \/ i < Len(calls)) =>
                      /\ calls[i].outcome = "failed"
                      /\ calls[i].message = paOutcome.error
    /\ (handler = "generate-questions" /\ usedProvider = "pythonanywhere") =>
          /\ paOutcome.ok
          /\ ~Defective(paResponse)
          /\ Len(paQuestions) = freq.count.v
          /\ generatedContent.questions =
                [i \in 1..Len(paQuestions) |-> JsonQuestion(paQuestions[i])]

\* the first iteration built a question, the second got a defective answer:
\* the attempt failed and the questions of the response are openai's
C18_Witness ==
    /\ handler = "generate-questions"
    /\ Len(paQuestions) = 1
    /\ Defective(paResponse)
    /\ calls[1].provider = "pythonanywhere" /\ calls[1].outcome = "failed"
    /\ usedProvider = "openai"
    /\ pc = "done" /\ httpResponse.status = 200
    /\ httpResponse.body.result # paQuestions

\* a generated question as the contract wants it: non-empty text, an array of
\* 2 to 4 options, an integer index into the options
SoundQuestion(q) ==
    /\ q.question_text # ""
    /\ q.is_array
    /\ Len(q.options) \in 2..4
    /\ q.correct_answer.t = "number"
    /\ q.correct_answer.d = 1
    /\ q.correct_answer.n \in 0..(Len(q.options) - 1)

\* C19: every row the question-generation endpoint has inserted has a
\* non-empty question_text, 2 to 4 options and an integer correct_answer with
\* 0 <= correct_answer < options.length; a successful response reports as
\* generated_count the number of kept questions, which are the rows inserted;
\* and when no generated question is valid, nothing is inserted and the
\* response has status 500.
C19_OnlyValidQuestionsInserted ==
    /\ \A i \in 1..Len(questionsTable) :
          /\ questionsTable[i].question_text # ""
          /\ Len(questionsTable[i].options) \in 2..4
          /\ questionsTable[i].correct_answer \in
                0..(Len(questionsTable[i].options) - 1)
    /\ (handler = "generate-questions" /\ pc = "done" /\ httpResponse.status = 200) =>
          LET kept == SelectSeq(generatedContent.questions, SoundQuestion)
          IN  /\ httpResponse.body.generated_count = Len(kept)
              /\ Len(questionsTable) = Len(kept)
              /\ httpResponse.body.result = questionsTable
              /\ \A i \in 1..Len(kept) :
                    /\ questionsTable[i].question_text = kept[i].question_text
                    /\ questionsTable[i].options = kept[i].options
                    /\ questionsTable[i].correct_answer = kept[i].correct_answer.n
    /\ (handler = "generate-questions" /\ generatedContent.kind = "array"
          /\ SelectSeq(generatedContent.questions, SoundQuestion) = <<>>) =>
          /\ questionsTable = <<>>
          /\ pc = "done" => httpResponse.status = 500
    /\ handler # "generate-questions" => questionsTable = <<>>

\* of two generated questions the flawed one was dropped and the other is
\* the one row inserted
C19_Witness ==
    /\ handler = "generate-questions"
    /\ pc = "done" /\ httpResponse.status = 200
    /\ Len(generatedContent.questions) = 2
    /\ ~SoundQuestion(generatedContent.questions[2])
    /\ Len(questionsTable) = 1
    /\ httpResponse.body.generated_count = 1

\* C23: a question-generation request whose topic is not a non-empty string
\* or whose count is not an integer in 1..20 is answered with HTTP 400, and
\* no provider adapter is called and nothing is inserted for it.
C23_InvalidGenerationRequestRejected ==
    (/\ handler = "generate-questions"
     /\ freq # NoValue
     /\ \/ ~(freq.topic.t = "string" /\ NonEmptyString(freq.topic))
        \/ ~(IsNumber(freq.count) /\ freq.count.v \in 1..20)) =>
        /\ pc = "done"
        /\ httpResponse.status = 400
        /\ calls = <<>>
        /\ questionsTable = <<>>

\* the language names that are "en" or "english" up to letter case
EnglishNames == {Text(name, FALSE) : name \in {"en", "EN", "english", "English"}}

\* C24: a valid translation request for English ("en" or "english" in any
\* letter case) is answered with the input text as it was sent,
\* provider_used = "none" and fallback_used = false, and no adapter is
\* called; a valid request for any other language enters the provider loop.
C24_EnglishShortCircuit ==
    (/\ handler = "translate-text"
     /\ freq # NoValue
     /\ Usable(freq.text) /\ Usable(freq.targetLang)) =>
        IF freq.targetLang \in EnglishNames
        THEN /\ pc = "done"
             /\ httpResponse.status = 200
             /\ httpResponse.body.success
             /\ httpResponse.body.result = freq.text
             /\ httpResponse.body.provider_used = "none"
             /\ ~httpResponse.body.fallback_used
             /\ calls = <<>>
             /\ providers = <<>>
        ELSE /\ providers = ProviderOrder(aiProvider)
             /\ attempt >= 1
             /\ pc \in {"loop", "awaiting", "done"}
             /\ pc = "done" =>
                   /\ Len(calls) >= 1
                   /\ httpResponse.body.provider_used # "none"

\* a request for "EN" with a text that has surrounding blanks, answered
\* with that text and no provider
C24_Witness ==
    /\ handler = "translate-text"
    /\ freq # NoValue
    /\ freq.targetLang = Text("EN", FALSE)
    /\ freq.text = Text("hello", TRUE)
    /\ pc = "done"
    /\ httpResponse.body.result = Text("hello", TRUE)
    /\ httpResponse.body.provider_used = "none"

----------------------------------------------------------------------------
(* The suspicion flag of user_profiles, kept by the trigger                 *)
(* on_quiz_session_suspicion_change.  A quiz_sessions row is its user_id    *)
(* and is_suspicious ("true", "false" or "null"); its id is its position.   *)

MaxSessions == 3        \* rows of quiz_sessions

Users == {"u1", "u2"}
SqlBooleans == {"true", "false", "null"}
SessionRows == [user_id : Users, is_suspicious : SqlBooleans]

\* EXISTS (SELECT 1 FROM quiz_sessions WHERE user_id = u AND is_suspicious = true)
HasSuspiciousSession(sessions, u) ==
    \E i \in 1..Len(sessions) :
        sessions[i].user_id = u /\ sessions[i].is_suspicious = "true"

\* a slip that never takes the flag back
update_user_suspicion_flag_sticky(newRow, sessions, profiles) ==
    IF newRow.is_suspicious = "true"
    THEN [profiles EXCEPT ![newRow.user_id].has_suspicious_sessions = TRUE]
    ELSE profiles

\* the trigger function, run after the row newRow was written into sessions
update_user_suspicion_flag(newRow, sessions, profiles) ==
    IF newRow.is_suspicious = "true"
    THEN [profiles EXCEPT ![newRow.user_id].has_suspicious_sessions = TRUE]
    ELSE [profiles EXCEPT ![newRow.user_id].has_suspicious_sessions =
                             HasSuspiciousSession(sessions, newRow.user_id)]

\* the UPDATE that closes the migration
Backfill(sessions) ==
    [u \in Users |-> [has_suspicious_sessions |-> HasSuspiciousSession(sessions, u)]]

\* INSERT INTO quiz_sessions
InsertSession(row) ==
    /\ pc = "tables"
    /\ Len(quiz_sessions) < MaxSessions
    /\ quiz_sessions' = Append(quiz_sessions, row)
    /\ user_profiles' = update_user_suspicion_flag(row, quiz_sessions', user_profiles)
    /\ UNCHANGED <<pc, ivars, avars, fvars, dvars, hvars, qvars>>

\* UPDATE quiz_sessions SET is_suspicious = value WHERE id = ...
UpdateSuspicion(id, value) ==
    /\ pc = "tables"
    /\ id \in 1..Len(quiz_sessions)
    /\ quiz_sessions' = [quiz_sessions EXCEPT ![id].is_suspicious = value]
    /\ user_profiles' = update_user_suspicion_flag(quiz_sessions'[id], quiz_sessions',
                                                   user_profiles)
    /\ UNCHANGED <<pc, ivars, avars, fvars, dvars, hvars, qvars>>

InitTables ==
    /\ pc = "tables"
    /\ quiz_sessions \in {<<>>} \cup {<<row>> : row \in SessionRows}
    /\ user_profiles = Backfill(quiz_sessions)
    /\ IntegrityUnused
    /\ AdapterUnused
    /\ FallbackUnused
    /\ NotEvaluated
    /\ GameUnused

NextTables ==
    \/ \E row \in SessionRows : InsertSession(row)
    \/ \E id \in 1..MaxSessions : \E value \in SqlBooleans : UpdateSuspicion(id, value)

SpecTables == InitTables /\ [][NextTables]_vars

----------------------------------------------------------------------------
(* Claims about the QuizGame component *)

\* completeQuiz has handed the quiz of a signed-in user to createSession
QuizSaved == pc \in {"creating", "profile", "finished"} /\ createdSession # NoValue

\* C27: the score and streak written to the quiz session of a signed-in
\* user, and the score added to the profile's total_score, take in the
\* last question: the saved score is the number of questions answered
\* correctly and the saved streak is the streak after the last answer.
C27_SavedScoreCountsLastQuestion ==
    QuizSaved =>
        /\ createdSession.score = correctAnswers
        /\ createdSession.streak = game.streak
        /\ profile.games_played = 1 => profile.total_score = correctAnswers

\* the detectCheating request of a quiz of two or more questions was scored
QuizScored ==
    /\ pc \in {"profile", "finished"}
    /\ anomalyResult # NoResult
    /\ Len(game.questions) >= 2

\* what the claim says of time_taken
TimeTakenAsClaimed ==
    LET n == Len(game.questions)
    IN  /\ createdSession.time_taken = (n * 30) - game.timeLeft
        /\ createdSession.time_taken >= 30 * (n - 1)
        /\ req.time_taken = Num(createdSession.time_taken)

\* C28 as stated: a quiz of n >= 2 questions completed through QuizGame
\* sends time_taken = n * 30 - (remaining seconds of the last question),
\* at least 30 * (n - 1); on it the scorer fires no speed rule and no
\* pattern rule and does not flag the quiz.
C28_AsStated ==
    QuizScored =>
        /\ TimeTakenAsClaimed
        /\ anomalyResult.analysis_details.speed_analysis = "Normal"
        /\ anomalyResult.analysis_details.pattern_analysis = "Normal"
        /\ ~anomalyResult.is_suspicious

\* C28: a quiz of n >= 2 questions completed through QuizGame sends
\* time_taken = n * 30 - (remaining seconds of the last question), at
\* least 30 * (n - 1); on it the scorer fires no speed rule and not the
\* perfect-streak rule and does not flag the quiz; of the pattern analysis
\* only the label "High streak percentage" can come.
C28_ClientQuizNeverFlagged ==
    QuizScored =>
        /\ TimeTakenAsClaimed
        /\ anomalyResult.analysis_details.speed_analysis = "Normal"
        /\ anomalyResult.analysis_details.pattern_analysis \in
              {"Normal", "High streak percentage"}
        /\ ~anomalyResult.is_suspicious
        /\ anomalyResult.confidence_score = 0
        /\ anomalyResult.suspicion_reason = ""

\* five questions, each answered correctly in the second it was shown: the
\* scorer gets 120 seconds, labels the streak and does not flag
C28_Witness ==
    /\ QuizScored
    /\ Len(game.questions) = 5
    /\ correctAnswers = 5
    /\ game.timeLeft = 30
    /\ req.time_taken = Num(120)
    /\ anomalyResult.analysis_details.pattern_analysis = "High streak percentage"
    /\ ~anomalyResult.is_suspicious

----------------------------------------------------------------------------
(* Claims about the suspicion trigger *)

\* C30: after any sequence of inserts into quiz_sessions and updates of
\* is_suspicious, in either direction and for any users, each user's
\* has_suspicious_sessions is true exactly when one of the user's sessions
\* has is_suspicious = true.
C30_ProfileFlagFollowsSessions ==
    pc = "tables" =>
        \A u \in Users :
            user_profiles[u].has_suspicious_sessions <=>
                \E i \in 1..Len(quiz_sessions) :
                    /\ quiz_sessions[i].user_id = u
                    /\ quiz_sessions[i].is_suspicious = "true"

\* one user with a flagged and an unflagged session, another user whose
\* session has no verdict: the first profile is flagged, the second is not
C30_Witness ==
    /\ pc = "tables"
    /\ Len(quiz_sessions) = 3
    /\ quiz_sessions[1] = [user_id |-> "u1", is_suspicious |-> "true"]
    /\ quiz_sessions[2] = [user_id |-> "u1", is_suspicious |-> "false"]
    /\ quiz_sessions[3] = [user_id |-> "u2", is_suspicious |-> "null"]
    /\ user_profiles["u1"].has_suspicious_sessions
    /\ ~user_profiles["u2"].has_suspicious_sessions

====
